---- MODULE Spec2Model ----
(***************************************************************************)
(* Durable-write subsystem of the storage provider                         *)
(* (src/contexts/StorageContext.tsx, first StorageProvider, and            *)
(* src/utils/chunk.ts).                                                    *)
(*                                                                         *)
(* A note is abstracted to the one character that carries its identity:    *)
(* note n serialises to the code unit n.  A document is a sequence of code *)
(* units (integers): notes are >= 0, JSON punctuation is negative.         *)
(* The 500 KiB threshold and chunk size are scaled down to a few units.    *)
(***************************************************************************)
EXTENDS Integers, Sequences, FiniteSets, TLC

\* ---------------------------------------------------------------- bounds
MaxNoteId == 3
MaxTasks == 3
MaxFailures == 1
MaxCrashes == 1
MaxDirectCalls == 2
MaxClears == 1
MaxName == 1
MaxStrLen == 4
MaxLimit == 5
MaxImages == 2
MaxImageNotes == 2
MaxCalls == 2

\* ------------------------------------------------- scaled program constants
ChunkThreshold == 4
MaxChunkBytes == 4
LegacyBytesPerChar == 3

\* ------------------------------------------------------------ code units
LBRACKET == 0 - 1
RBRACKET == 0 - 2
COMMA == 0 - 3
GARBAGE == 0 - 4
\* a character of the basic plane that takes three bytes, and the two halves
\* of a surrogate pair (one character of four bytes, two code units)
EURO == 0 - 5
HIGH_SURROGATE == 0 - 6
LOW_SURROGATE == 0 - 7
\* the JSON literal null as an element of an array
NULL_ITEM == 0 - 8

\* encoder.encode(c).length of one code unit: notes with an even positive id
\* carry a two-byte character; a lone surrogate is encoded as U+FFFD, three
\* bytes; everything else is one byte
Utf8Len(c) ==
  IF c \in {EURO, HIGH_SURROGATE, LOW_SURROGATE} THEN 3
  ELSE IF c > 0 /\ c % 2 = 0 THEN 2 ELSE 1

\* encoder.encode(s).length: a high surrogate followed by a low one is one
\* character of four bytes
RECURSIVE Utf8Bytes(_)
Utf8Bytes(s) ==
  IF s = <<>> THEN 0
  ELSE IF Len(s) >= 2 /\ s[1] = HIGH_SURROGATE /\ s[2] = LOW_SURROGATE
       THEN 4 + Utf8Bytes(SubSeq(s, 3, Len(s)))
       ELSE Utf8Len(Head(s)) + Utf8Bytes(Tail(s))

\* ------------------------------------------------------ JSON of a notes list
RECURSIVE JoinItems(_)
JoinItems(ns) ==
  IF ns = <<>> THEN <<>>
  ELSE IF Len(ns) = 1 THEN <<ns[1]>>
  ELSE <<ns[1], COMMA>> \o JoinItems(Tail(ns))

\* JSON.stringify(notes)
StringifyNotes(ns) == <<LBRACKET>> \o JoinItems(ns) \o <<RBRACKET>>

\* a code unit that is a whole JSON value: a note, or null
IsItem(c) == c >= 0 \/ c = NULL_ITEM

RECURSIVE ItemsOK(_)
ItemsOK(body) ==
  IF body = <<>> THEN FALSE
  ELSE IF Len(body) = 1 THEN IsItem(body[1])
  ELSE IsItem(body[1]) /\ body[2] = COMMA /\ ItemsOK(SubSeq(body, 3, Len(body)))

RECURSIVE ItemsOf(_)
ItemsOf(body) ==
  IF Len(body) <= 1 THEN body
  ELSE <<body[1]>> \o ItemsOf(SubSeq(body, 3, Len(body)))

\* JSON.parse(s) succeeds
ParseOK(s) ==
  /\ Len(s) >= 2
  /\ s[1] = LBRACKET
  /\ s[Len(s)] = RBRACKET
  /\ (Len(s) = 2 \/ ItemsOK(SubSeq(s, 2, Len(s) - 1)))

\* JSON.parse(s) when it succeeds
ParseNotes(s) == IF Len(s) = 2 THEN <<>> ELSE ItemsOf(SubSeq(s, 2, Len(s) - 1))

\* ------------------------------------------------------------- chunk.ts
\* the loop of splitByBytes from position i with currentChunk = cur
RECURSIVE SplitLoop(_, _, _, _)
SplitLoop(str, i, cur, maxBytes) ==
  IF i > Len(str) THEN (IF Len(cur) > 0 THEN <<cur>> ELSE <<>>)
  ELSE LET testChunk == Append(cur, str[i])
       IN IF Utf8Bytes(testChunk) > maxBytes /\ Len(cur) > 0
          THEN <<cur>> \o SplitLoop(str, i + 1, <<str[i]>>, maxBytes)
          ELSE SplitLoop(str, i + 1, testChunk, maxBytes)

splitByBytesLoose(str, maxBytes) ==
  IF str = <<>> THEN <<>> ELSE SplitLoop(str, 1, <<>>, maxBytes + 1)
splitByBytes(str, maxBytes) ==
  IF str = <<>> THEN <<>> ELSE SplitLoop(str, 1, <<>>, maxBytes)

RECURSIVE LegacyLoop(_, _, _, _)
LegacyLoop(str, i, cur, maxBytes) ==
  IF i > Len(str) THEN (IF Len(cur) > 0 THEN <<cur>> ELSE <<>>)
  ELSE LET testChunk == Append(cur, str[i])
       IN IF Len(testChunk) * LegacyBytesPerChar > maxBytes /\ Len(cur) > 0
          THEN <<cur>> \o LegacyLoop(str, i + 1, <<str[i]>>, maxBytes)
          ELSE LegacyLoop(str, i + 1, testChunk, maxBytes)

splitByBytesLegacyFromSecond(str, maxBytes) ==
  IF str = <<>> THEN <<>> ELSE LegacyLoop(str, 2, <<>>, maxBytes)
splitByBytesLegacy(str, maxBytes) ==
  IF str = <<>> THEN <<>> ELSE LegacyLoop(str, 1, <<>>, maxBytes)

\* precise: TextEncoder and window are both defined in this environment
splitStringByBytes(str, maxBytes, precise) ==
  IF precise THEN splitByBytes(str, maxBytes) ELSE splitByBytesLegacy(str, maxBytes)

RECURSIVE joinChunks(_)
joinChunks(chunks) ==
  IF chunks = <<>> THEN <<>> ELSE Head(chunks) \o joinChunks(Tail(chunks))


\* ------------------------------------------------------------ key-value store
\* store.kv: the named keys that are present; store.chunk: the keys
\* SIEMENS_NOTES_chunk_<i> that are present
K_PROJECTS == "SIEMENS_PROJECTS"
K_NOTES == "SIEMENS_NOTES"
K_NOTES_TMP == "SIEMENS_NOTES_TMP"
K_NOTES_META == "SIEMENS_NOTES_META"
K_LEGACY_META == "SIEMENS_NOTES_chunks_meta"
K_HISTORY == "SIEMENS_CALC_HISTORY"
FavKinds == {"PROJECTS", "BUILDINGS", "ZONES", "SHUTTERS", "NOTES"}
K_FAV(kind) == "SIEMENS_FAV_" \o kind

Has(st, k) == k \in DOMAIN st.kv
Get(st, k) == st.kv[k]
SetItem(st, k, v) == [st EXCEPT !.kv = (k :> v) @@ st.kv]
RemoveItem(st, k) == [st EXCEPT !.kv = [x \in (DOMAIN st.kv) \ {k} |-> st.kv[x]]]
MultiRemove(st, ks) == [st EXCEPT !.kv = [x \in (DOMAIN st.kv) \ ks |-> st.kv[x]]]
HasChunk(st, i) == i \in DOMAIN st.chunk
GetChunk(st, i) == st.chunk[i]
SetChunk(st, i, v) == [st EXCEPT !.chunk = (i :> v) @@ st.chunk]
MultiRemoveChunks(st, is) == [st EXCEPT !.chunk = [x \in (DOMAIN st.chunk) \ is |-> st.chunk[x]]]
\* allKeys.filter(key => key.startsWith('SIEMENS_NOTES_chunk_'))
ChunkKeysOf(st) == DOMAIN st.chunk

\* ------------------------------------------------------------ project tree
Shutter(id, zoneId) ==
  [id |-> id, zoneId |-> zoneId, name |-> 0, createdAt |-> 0, updatedAt |-> 0]

\* the tree persisted by an earlier session: one project, one building, one
\* zone, two shutters
SeedProjects ==
  << [id |-> "p1", createdAt |-> 0, updatedAt |-> 0,
      buildings |-> << [id |-> "b1", projectId |-> "p1", createdAt |-> 0,
        functionalZones |-> << [id |-> "z1", buildingId |-> "b1", createdAt |-> 0,
          shutters |-> << Shutter("s1", "z1"), Shutter("s2", "z1") >> ] >> ] >> ] >>

ShutterIds == {"s1", "s2"}

ZoneHasShutter(z, sid) == \E x \in 1..Len(z.shutters) : z.shutters[x].id = sid
BuildingHasShutter(b, sid) ==
  \E k \in 1..Len(b.functionalZones) : ZoneHasShutter(b.functionalZones[k], sid)
ProjectHasShutter(p, sid) ==
  \E j \in 1..Len(p.buildings) : BuildingHasShutter(p.buildings[j], sid)
HasShutter(ps, sid) == \E i \in 1..Len(ps) : ProjectHasShutter(ps[i], sid)

\* the snapshot updateShutter builds: the shutter replaced by
\* {...shutter, ...updates, updatedAt: now}, its project's updatedAt bumped
UpdateShutterInZone(z, sid, name, t) ==
  [z EXCEPT !.shutters = [x \in 1..Len(z.shutters) |->
    IF z.shutters[x].id = sid
    THEN [z.shutters[x] EXCEPT !.name = name, !.updatedAt = t]
    ELSE z.shutters[x]]]

UpdateShutterInBuilding(b, sid, name, t) ==
  [b EXCEPT !.functionalZones = [k \in 1..Len(b.functionalZones) |->
    UpdateShutterInZone(b.functionalZones[k], sid, name, t)]]

UpdateShutterTree(ps, sid, name, t) ==
  [i \in 1..Len(ps) |->
    IF ~ProjectHasShutter(ps[i], sid) THEN ps[i]
    ELSE [ps[i] EXCEPT
      !.updatedAt = t,
      !.buildings = [j \in 1..Len(ps[i].buildings) |->
        UpdateShutterInBuilding(ps[i].buildings[j], sid, name, t)]]]

\* the name of shutter sid in a tree where it exists
ShutterName(ps, sid) ==
  LET i == CHOOSE i \in 1..Len(ps) : ProjectHasShutter(ps[i], sid)
      j == CHOOSE j \in 1..Len(ps[i].buildings) : BuildingHasShutter(ps[i].buildings[j], sid)
      zs == ps[i].buildings[j].functionalZones
      k == CHOOSE k \in 1..Len(zs) : ZoneHasShutter(zs[k], sid)
      x == CHOOSE x \in 1..Len(zs[k].shutters) : zs[k].shutters[x].id = sid
  IN zs[k].shutters[x].name

\* JSON.stringify of a Date / new Date(iso)
DateToJSON(d) == [iso |-> d]
DateFromJSON(j) == j.iso

\* JSON.stringify(newProjects): every Date becomes its ISO string
ShutterToJSON(sh) ==
  [id |-> sh.id, zoneId |-> sh.zoneId, name |-> sh.name,
   createdAt |-> DateToJSON(sh.createdAt), updatedAt |-> DateToJSON(sh.updatedAt)]

ZoneToJSON(z) ==
  [id |-> z.id, buildingId |-> z.buildingId, createdAt |-> DateToJSON(z.createdAt),
   shutters |-> [x \in 1..Len(z.shutters) |-> ShutterToJSON(z.shutters[x])]]

BuildingToJSON(b) ==
  [id |-> b.id, projectId |-> b.projectId, createdAt |-> DateToJSON(b.createdAt),
   functionalZones |-> [k \in 1..Len(b.functionalZones) |-> ZoneToJSON(b.functionalZones[k])]]

ProjectToJSON(p) ==
  [id |-> p.id, createdAt |-> DateToJSON(p.createdAt), updatedAt |-> DateToJSON(p.updatedAt),
   buildings |-> [j \in 1..Len(p.buildings) |-> BuildingToJSON(p.buildings[j])]]

StringifyProjects(ps) == [json |-> [i \in 1..Len(ps) |-> ProjectToJSON(ps[i])]]

\* JSON.parse and the date coercion of the loaded projects
ProcessShutter(sh) ==
  [id |-> sh.id, zoneId |-> sh.zoneId, name |-> sh.name,
   createdAt |-> DateFromJSON(sh.createdAt), updatedAt |-> DateFromJSON(sh.updatedAt)]

ProcessZone(z) ==
  [id |-> z.id, buildingId |-> z.buildingId, createdAt |-> DateFromJSON(z.createdAt),
   shutters |-> [x \in 1..Len(z.shutters) |-> ProcessShutter(z.shutters[x])]]

ProcessBuilding(b) ==
  [id |-> b.id, projectId |-> b.projectId, createdAt |-> DateFromJSON(b.createdAt),
   functionalZones |-> [k \in 1..Len(b.functionalZones) |-> ProcessZone(b.functionalZones[k])]]

ProcessProject(p) ==
  [id |-> p.id, createdAt |-> DateFromJSON(p.createdAt), updatedAt |-> DateFromJSON(p.updatedAt),
   buildings |-> [j \in 1..Len(p.buildings) |-> ProcessBuilding(p.buildings[j])]]

ProcessProjects(doc) == [i \in 1..Len(doc.json) |-> ProcessProject(doc.json[i])]

\* ---------------------------------------------------------------- loading
\* stored text that JSON.parse rejects, and the stored text 'null'
Unparseable == [garbage |-> TRUE]
NullLiteral == [literal |-> "null"]

\* what getItem returned can be used: it is not null, not the text 'null' or
\* 'undefined', and JSON.parse does not throw on it
JsonOK(v) == "json" \in DOMAIN v

\* safeStorageOperation(() => getItem(key), null, name): the stored value is
\* seen when the call did not throw and the key is present
Readable(st, key, ok) == ok /\ Has(st, key)

\* the projects part of initializeStorage; ok: getItem did not throw
LoadProjectsIgnoringFailure(st, ok) ==
  IF Has(st, K_PROJECTS) /\ JsonOK(Get(st, K_PROJECTS))
  THEN ProcessProjects(Get(st, K_PROJECTS)) ELSE <<>>
LoadProjects(st, ok) ==
  IF Readable(st, K_PROJECTS, ok) /\ JsonOK(Get(st, K_PROJECTS))
  THEN ProcessProjects(Get(st, K_PROJECTS)) ELSE <<>>

\* the chunk fallback inside initializeStorage: reads the key
\* SIEMENS_NOTES_chunks_meta, parses every chunk that is present as a JSON
\* array and concatenates them; any throw gives []
RECURSIVE LegacyChunksFrom(_, _, _)
LegacyChunksFrom(st, i, total) ==
  IF i >= total THEN <<>>
  ELSE (IF HasChunk(st, i) THEN ParseNotes(GetChunk(st, i)) ELSE <<>>)
       \o LegacyChunksFrom(st, i + 1, total)

LegacyChunksParse(st, total) ==
  \A i \in 0..(total - 1) : HasChunk(st, i) => ParseOK(GetChunk(st, i))

LoadLegacyChunks(st, ok) ==
  IF ~ok THEN <<>>
  ELSE IF ~Has(st, K_LEGACY_META) THEN <<>>
  ELSE LET total == Get(st, K_LEGACY_META).totalChunks
       IN IF LegacyChunksParse(st, total) THEN LegacyChunksFrom(st, 0, total) ELSE <<>>

\* loadedNotes.map(note => ({...note, createdAt: new Date(note.createdAt ...)})):
\* reading a field of null throws, the catch around it sets the notes to []
ProcessNotes(loadedNotes) ==
  IF \E x \in 1..Len(loadedNotes) : loadedNotes[x] = NULL_ITEM THEN << >> ELSE loadedNotes

\* the notes part of initializeStorage; okPrimary, okLegacy: the reads did not throw
LoadNotes(st, okPrimary, okLegacy) ==
  IF Readable(st, K_NOTES, okPrimary)
  THEN IF ParseOK(Get(st, K_NOTES))
       THEN ProcessNotes(ParseNotes(Get(st, K_NOTES)))
       ELSE ProcessNotes(LoadLegacyChunks(st, okLegacy))
  ELSE <<>>

\* loadNotesFromChunks: defined by the provider, called from nowhere
RECURSIVE ChunksInOrder(_, _, _)
ChunksInOrder(st, i, total) ==
  IF i >= total THEN <<>> ELSE <<GetChunk(st, i)>> \o ChunksInOrder(st, i + 1, total)

loadNotesFromChunks(st) ==
  IF ~Has(st, K_NOTES_META) THEN <<>>
  ELSE LET total == Get(st, K_NOTES_META).totalChunks
       IN IF \A i \in 0..(total - 1) : HasChunk(st, i)
          THEN joinChunks(ChunksInOrder(st, 0, total))
          ELSE <<>>


\* ------------------------------------------------------------------- state
VARIABLES
  store,            \* AsyncStorage
  precise,          \* TextEncoder and window exist in this environment
  app,              \* "booting" until initializeStorage has run, then "ready"
  projects,         \* useState projects
  projectsRef,      \* projectsRef.current
  notes,            \* useState notes
  favorites,        \* the five favorites states
  quickCalcHistory, \* useState quickCalcHistory
  tasks,            \* the functions handed to enqueue, in submission order
  saveQueueRef,     \* saveQueueRef.current, a promise
  clear,            \* the position of a running clearAllData
  now,              \* Date.now()
  nextId,           \* the next generateUniqueId() of a note
  failures,         \* storage calls that have thrown
  crashes,          \* process deaths
  directCalls,      \* favorites and history calls made
  clears,           \* clearAllData calls made
  lastWrite,        \* who performed the last store write
  committed,        \* the last saveNotes that resolved: its notes, its path, its task
  crashInfo,        \* what the last crash interrupted
  loadOk,           \* no read threw during the last initializeStorage
  splitInput,       \* the string handed to the splitter
  splitLimit,       \* the byte limit handed to the splitter
  splitter,         \* the splitter that was called
  splitOutput,      \* what the splitter returned
  joined,           \* what joinChunks returned
  loadFailed,       \* the reads that threw during the last initializeStorage
  platformOS,       \* Platform.OS
  files,            \* the blobs of the images directory: file name -> payload
  nextFile,         \* the next unique file name
  persistCall,      \* the last call of the image store: argument, failures, result
  sanitizeCall,     \* the last sanitizeNotesImages call of saveNotes
  lastCall          \* the last repository call and what it returned

chunkVars == << splitInput, splitLimit, splitter, splitOutput, joined >>
imageVars == << platformOS, files, nextFile, persistCall, sanitizeCall >>
sideVars == << chunkVars, loadFailed, imageVars, lastCall >>

vars == << store, precise, app, projects, projectsRef, notes, favorites,
           quickCalcHistory, tasks, saveQueueRef, clear, now, nextId, failures,
           crashes, directCalls, clears, lastWrite, committed, crashInfo, loadOk,
           sideVars >>

memVars == << app, projects, projectsRef, notes, favorites, quickCalcHistory,
              tasks, saveQueueRef, clear >>
countVars == << failures, crashes, directCalls, clears >>

\* ------------------------------------------------------------ persisted input
BaseStore ==
  [kv |-> (K_PROJECTS :> StringifyProjects(SeedProjects)), chunk |-> << >>]

\* a store left by an older version: unparseable primary key, old-format
\* chunk metadata announcing two chunks, of which chunk 1 is missing
LegacyStore ==
  [kv |-> (K_NOTES :> <<GARBAGE>>) @@ (K_LEGACY_META :> [totalChunks |-> 2, version |-> "1.0"])
          @@ BaseStore.kv,
   chunk |-> (0 :> StringifyNotes(<<0>>))]

\* a store whose primary notes key holds one note
DirectStore == SetItem(BaseStore, K_NOTES, StringifyNotes(<<0>>))

InitStores == {BaseStore, DirectStore, LegacyStore}

NoFavorites == [k \in FavKinds |-> << >>]
FavValues == {<<"p1">>}

\* ------------------------------------------------------------ write queue
ResolvedPromise == [task |-> 0, caught |-> FALSE]

\* the state of promise p: next of task p.task, or next.catch(() => {})
PromiseState(ts, p) ==
  IF p.task = 0 THEN "fulfilled"
  ELSE IF ts[p.task].outcome = "pending" THEN "pending"
  ELSE IF p.caught THEN "fulfilled"
  ELSE ts[p.task].outcome

\* saveQueueRef.current.then(fn, fn): which settlements of the source call fn
ThenHandlers == [fulfilled |-> TRUE, rejected |-> TRUE]

\* saveQueueRef.current = next.catch(() => {})
QueueTailNoUpdate(cur, idx) == cur
QueueTail(cur, idx) == [task |-> idx, caught |-> TRUE]

\* return next
EnqueueReturnTail(idx) == [task |-> idx, caught |-> TRUE]
EnqueueReturn(idx) == [task |-> idx, caught |-> FALSE]

NoUpdate == [shutter |-> "", name |-> 0]

NewTask(kind, projectsArg, notesArg, upd) ==
  [kind |-> kind, projectsArg |-> projectsArg, notesArg |-> notesArg, upd |-> upd,
   overlap |-> PromiseState(tasks, saveQueueRef) = "pending",
   pred |-> saveQueueRef, ret |-> EnqueueReturn(Len(tasks) + 1),
   pc |-> "queued", outcome |-> "pending",
   doc |-> << >>, chunks |-> << >>, i |-> 0, chunkKeys |-> {},
   loadBefore |-> << >>]

\* enqueue(fn)
Enqueue(kind, projectsArg, notesArg, upd) ==
  /\ tasks' = Append(tasks, NewTask(kind, projectsArg, notesArg, upd))
  /\ saveQueueRef' = QueueTail(saveQueueRef, Len(tasks) + 1)

Settled(t) == t.outcome # "pending"
Running(t) == t.pc \notin {"queued", "done", "skipped"}

\* a storage call may throw while the failure budget lasts
OkChoices == IF failures < MaxFailures THEN {TRUE, FALSE} ELSE {TRUE}
Fail(ok) == failures' = IF ok THEN failures ELSE failures + 1

TaskWrite(i) == [op |-> "task", task |-> i]
Wrote(ok, w) == lastWrite' = IF ok THEN w ELSE lastWrite

\* --------------------------------------------------------------------- Init
NothingCommitted == [valid |-> FALSE, notes |-> << >>, chunked |-> FALSE, by |-> 0]

\* no splitter call is under way
ChunkerIdle ==
  /\ splitInput = << >>
  /\ splitLimit = MaxChunkBytes
  /\ splitter = "none"
  /\ splitOutput = << >>
  /\ joined = [done |-> FALSE, text |-> << >>]

\* the provider as constructed, over one of the persisted stores
ProviderInit(thrown, stores, encoders) ==
  /\ store \in stores
  /\ precise \in encoders
  /\ app = "booting"
  /\ projects = << >>
  /\ projectsRef = << >>
  /\ notes = << >>
  /\ favorites = NoFavorites
  /\ quickCalcHistory = << >>
  /\ tasks = << >>
  /\ saveQueueRef = ResolvedPromise
  /\ clear = [pc |-> "idle", chunkKeys |-> {}]
  /\ now = 1
  /\ nextId = 1
  /\ failures = thrown
  /\ crashes = 0
  /\ directCalls = 0
  /\ clears = 0
  /\ lastWrite = [op |-> "none", task |-> 0]
  /\ committed = NothingCommitted
  /\ crashInfo = [window |-> FALSE, clean |-> FALSE]
  /\ loadOk = TRUE
  /\ loadFailed = {}

\* an optional image list: string[] | undefined
Undefined == [defined |-> FALSE, list |-> << >>]
Defined(list) == [defined |-> TRUE, list |-> list]

\* no image call has been made; the images directory holds one blob
NoPersistCall ==
  [op |-> "none", images |-> Undefined, failed |-> {}, result |-> Undefined,
   filesBefore |-> << >>]
NoSanitizeCall ==
  [done |-> FALSE, notes |-> << >>, failed |-> {}, sanitizedNotes |-> << >>,
   dataString |-> [json |-> << >>], filesBefore |-> << >>]

ImagesIdle(platforms) ==
  /\ platformOS \in platforms
  /\ files = (1 :> 1)
  /\ nextFile = 2
  /\ persistCall = NoPersistCall
  /\ sanitizeCall = NoSanitizeCall

\* no repository call has been recorded
NoCall ==
  [n |-> 0, op |-> "none", ids |-> {}, ret |-> "none", task |-> 0,
   before |-> [projects |-> << >>, notes |-> << >>, favorites |-> NoFavorites]]

InitWith(thrown, stores, encoders) ==
  /\ ProviderInit(thrown, stores, encoders)
  /\ ChunkerIdle
  /\ ImagesIdle({"web"})
  /\ lastCall = NoCall

Init == InitWith(0, InitStores, BOOLEAN)

\* ------------------------------------------------------- initializeStorage
\* the getItem calls of initializeStorage; CHUNKS stands for the reads of the
\* chunk fallback, which are made only when the primary notes key is unparseable
LoadReads == {"PROJECTS", "HISTORY", "NOTES", "CHUNKS"} \cup {"FAV_" \o k : k \in FavKinds}

LoadFavorites(st, kind, ok) ==
  IF Readable(st, K_FAV(kind), ok) /\ JsonOK(Get(st, K_FAV(kind)))
  THEN Get(st, K_FAV(kind)).json ELSE << >>
LoadHistory(st, ok) ==
  IF Readable(st, K_HISTORY, ok) /\ JsonOK(Get(st, K_HISTORY))
  THEN Get(st, K_HISTORY).json ELSE << >>

\* the chunk fallback is reached by this load
ReachesFallback(st, failed) ==
  "NOTES" \notin failed /\ Has(st, K_NOTES) /\ ~ParseOK(Get(st, K_NOTES))

isLoading == app = "booting"
isInitialized == app = "ready"

\* failed: the reads that throw during this load
InitializeStorage ==
  /\ app = "booting"
  /\ \E failed \in SUBSET LoadReads :
       /\ Cardinality(failed) <= MaxFailures - failures
       /\ "CHUNKS" \in failed => ReachesFallback(store, failed)
       /\ failures' = failures + Cardinality(failed)
       /\ projects' = LoadProjects(store, "PROJECTS" \notin failed)
       /\ favorites' = [k \in FavKinds |-> LoadFavorites(store, k, ("FAV_" \o k) \notin failed)]
       /\ quickCalcHistory' = LoadHistory(store, "HISTORY" \notin failed)
       /\ notes' = LoadNotes(store, "NOTES" \notin failed, "CHUNKS" \notin failed)
       /\ loadOk' = (failed = {})
       /\ loadFailed' = failed
  /\ app' = "ready"
  /\ UNCHANGED << store, precise, projectsRef, tasks, saveQueueRef, clear, now, nextId,
                  crashes, directCalls, clears, lastWrite, committed, crashInfo,
                  chunkVars, imageVars, lastCall >>

\* useEffect(() => { projectsRef.current = projects }, [projects])
ProjectsEffect ==
  /\ app = "ready"
  /\ projectsRef # projects
  /\ projectsRef' = projects
  /\ UNCHANGED << store, precise, app, projects, notes, favorites, quickCalcHistory,
                  tasks, saveQueueRef, clear, now, nextId, countVars, lastWrite,
                  committed, crashInfo, loadOk, sideVars >>

\* ------------------------------------------------------------ callers
\* updateShutter(sid, {name}) on a shutter found in projectsRef.current
UpdateShutter(sid, name) ==
  /\ app = "ready"
  /\ Len(tasks) < MaxTasks
  /\ HasShutter(projectsRef, sid)
  /\ Enqueue("saveProjects", UpdateShutterTree(projectsRef, sid, name, now), << >>,
             [shutter |-> sid, name |-> name])
  /\ now' = now + 1
  /\ UNCHANGED << store, precise, app, projects, projectsRef, notes, favorites,
                  quickCalcHistory, clear, nextId, countVars, lastWrite, committed,
                  crashInfo, loadOk, sideVars >>

\* createNote(noteData) without images: [newNote, ...notes]
CreateNote ==
  /\ app = "ready"
  /\ Len(tasks) < MaxTasks
  /\ nextId <= MaxNoteId
  /\ Enqueue("saveNotes", << >>, <<nextId>> \o notes, NoUpdate)
  /\ nextId' = nextId + 1
  /\ UNCHANGED << store, precise, app, projects, projectsRef, notes, favorites,
                  quickCalcHistory, clear, now, countVars, lastWrite, committed,
                  crashInfo, loadOk, sideVars >>


\* ------------------------------------------------------------ queue tasks
\* the source promise of then(fn, fn) settles: fn is called, or the
\* settlement passes through when there is no handler for it
StartTask(i) ==
  /\ i \in 1..Len(tasks)
  /\ tasks[i].pc = "queued"
  /\ PromiseState(tasks, tasks[i].pred) # "pending"
  /\ tasks' = IF ThenHandlers[PromiseState(tasks, tasks[i].pred)]
              THEN [tasks EXCEPT ![i].pc = "run",
                                 ![i].loadBefore = LoadNotes(store, TRUE, TRUE)]
              ELSE [tasks EXCEPT ![i].pc = "skipped",
                                 ![i].outcome = PromiseState(tasks, tasks[i].pred)]
  /\ UNCHANGED << store, precise, app, projects, projectsRef, notes, favorites,
                  quickCalcHistory, saveQueueRef, clear, now, nextId, countVars,
                  lastWrite, committed, crashInfo, loadOk, sideVars >>

\* saveProjects: await setItem(PROJECTS, ...); setProjects(newProjects)
ProjectsSetBeforeWrite(ok, cur, new) == new
ProjectsAfterSave(ok, cur, new) == IF ok THEN new ELSE cur

SaveProjectsWrite(i) ==
  /\ i \in 1..Len(tasks)
  /\ tasks[i].kind = "saveProjects"
  /\ tasks[i].pc = "run"
  /\ \E ok \in OkChoices :
       /\ store' = IF ok THEN SetItem(store, K_PROJECTS, StringifyProjects(tasks[i].projectsArg))
                   ELSE store
       /\ projects' = ProjectsAfterSave(ok, projects, tasks[i].projectsArg)
       /\ tasks' = [tasks EXCEPT ![i].pc = "done",
                                 ![i].outcome = IF ok THEN "fulfilled" ELSE "rejected"]
       /\ Fail(ok)
       /\ Wrote(ok, TaskWrite(i))
  /\ UNCHANGED << precise, app, projectsRef, notes, favorites, quickCalcHistory,
                  saveQueueRef, clear, now, nextId, crashes, directCalls, clears,
                  committed, crashInfo, loadOk, sideVars >>

\* sanitizeNotesImages on the platform that keeps images inline
sanitizeNotesImages(ns) == ns

taskFrame == << precise, app, projects, projectsRef, favorites, quickCalcHistory,
                saveQueueRef, clear, now, nextId, crashes, directCalls, clears,
                crashInfo, loadOk, sideVars >>

\* saveNotes, up to the write-ahead setItem(NOTES_TMP, dataString)
NotesStage(i) ==
  /\ i \in 1..Len(tasks)
  /\ tasks[i].kind = "saveNotes"
  /\ tasks[i].pc = "run"
  /\ \E ok \in OkChoices :
       LET dataString == StringifyNotes(sanitizeNotesImages(tasks[i].notesArg)) IN
       /\ store' = IF ok THEN SetItem(store, K_NOTES_TMP, dataString) ELSE store
       /\ tasks' = [tasks EXCEPT ![i].pc = IF ok THEN "staged" ELSE "catch",
                                 ![i].doc = dataString]
       /\ Fail(ok)
       /\ Wrote(ok, TaskWrite(i))
  /\ UNCHANGED << taskFrame, notes, committed >>

\* dataString.length > 500 * 1024
TakesChunkedPathAlways(dataString) == Len(dataString) >= 0
TakesChunkedPath(dataString) == Len(dataString) > ChunkThreshold

\* the branch: direct setItem(NOTES), or the metadata write of
\* saveNotesWithUTF8Chunks
NotesBranch(i) ==
  /\ i \in 1..Len(tasks)
  /\ tasks[i].kind = "saveNotes"
  /\ tasks[i].pc = "staged"
  /\ \E ok \in OkChoices :
       /\ IF TakesChunkedPath(tasks[i].doc)
          THEN LET chunks == splitStringByBytes(tasks[i].doc, MaxChunkBytes, precise) IN
               /\ store' = IF ok
                           THEN SetItem(store, K_NOTES_META,
                                        [totalChunks |-> Len(chunks), version |-> "2.0"])
                           ELSE store
               /\ tasks' = [tasks EXCEPT ![i].pc = IF ok THEN "chunk" ELSE "catch",
                                         ![i].chunks = chunks, ![i].i = 0]
          ELSE /\ store' = IF ok THEN SetItem(store, K_NOTES, tasks[i].doc) ELSE store
               /\ tasks' = [tasks EXCEPT ![i].pc = IF ok THEN "commit" ELSE "catch"]
       /\ Fail(ok)
       /\ Wrote(ok, TaskWrite(i))
  /\ UNCHANGED << taskFrame, notes, committed >>

\* one iteration of the chunk loop: setItem(NOTES_chunk_i, chunks[i])
NotesChunk(i) ==
  /\ i \in 1..Len(tasks)
  /\ tasks[i].kind = "saveNotes"
  /\ tasks[i].pc = "chunk"
  /\ \E ok \in OkChoices :
       /\ store' = IF ok THEN SetChunk(store, tasks[i].i, tasks[i].chunks[tasks[i].i + 1])
                   ELSE store
       /\ tasks' = [tasks EXCEPT
            ![i].pc = IF ~ok THEN "catch"
                      ELSE IF tasks[i].i + 1 < Len(tasks[i].chunks) THEN "chunk"
                      ELSE "rmPrimary",
            ![i].i = IF ok THEN tasks[i].i + 1 ELSE tasks[i].i]
       /\ Fail(ok)
       /\ Wrote(ok, TaskWrite(i))
  /\ UNCHANGED << taskFrame, notes, committed >>

\* removeItem(NOTES) at the end of saveNotesWithUTF8Chunks
NotesRemovePrimary(i) ==
  /\ i \in 1..Len(tasks)
  /\ tasks[i].kind = "saveNotes"
  /\ tasks[i].pc = "rmPrimary"
  /\ \E ok \in OkChoices :
       /\ store' = IF ok THEN RemoveItem(store, K_NOTES) ELSE store
       /\ tasks' = [tasks EXCEPT ![i].pc = IF ok THEN "commit" ELSE "catch"]
       /\ Fail(ok)
       /\ Wrote(ok, TaskWrite(i))
  /\ UNCHANGED << taskFrame, notes, committed >>

\* removeItem(NOTES_TMP) as soon as the chunks are written
NotesCommitEarly(i) ==
  /\ i \in 1..Len(tasks)
  /\ tasks[i].kind = "saveNotes"
  /\ tasks[i].pc \in {"commit", "rmPrimary"}
  /\ \E ok \in OkChoices :
       /\ store' = IF ok THEN RemoveItem(store, K_NOTES_TMP) ELSE store
       /\ tasks' = [tasks EXCEPT ![i].pc = IF ok THEN "cleanup" ELSE "catch"]
       /\ Fail(ok)
       /\ Wrote(ok, TaskWrite(i))
  /\ UNCHANGED << taskFrame, notes, committed >>

\* commit: removeItem(NOTES_TMP)
NotesCommit(i) ==
  /\ i \in 1..Len(tasks)
  /\ tasks[i].kind = "saveNotes"
  /\ tasks[i].pc = "commit"
  /\ \E ok \in OkChoices :
       /\ store' = IF ok THEN RemoveItem(store, K_NOTES_TMP) ELSE store
       /\ tasks' = [tasks EXCEPT ![i].pc = IF ok THEN "cleanup" ELSE "catch"]
       /\ Fail(ok)
       /\ Wrote(ok, TaskWrite(i))
  /\ UNCHANGED << taskFrame, notes, committed >>

\* cleanupOldChunks has returned: setNotes(sanitizedNotes), the task resolves
NotesFinish(i) ==
  /\ notes' = sanitizeNotesImages(tasks[i].notesArg)
  /\ committed' = [valid |-> TRUE, notes |-> sanitizeNotesImages(tasks[i].notesArg),
                    chunked |-> TakesChunkedPath(tasks[i].doc), by |-> i]

\* cleanupOldChunks: getAllKeys and the filter on the chunk prefix
NotesCleanupKeys(i) ==
  /\ i \in 1..Len(tasks)
  /\ tasks[i].kind = "saveNotes"
  /\ tasks[i].pc = "cleanup"
  /\ \E ok \in OkChoices :
       /\ IF ok /\ ChunkKeysOf(store) # {}
          THEN /\ tasks' = [tasks EXCEPT ![i].pc = "cleanupRemove",
                                         ![i].chunkKeys = ChunkKeysOf(store)]
               /\ UNCHANGED << notes, committed >>
          ELSE /\ tasks' = [tasks EXCEPT ![i].pc = "done", ![i].outcome = "fulfilled"]
               /\ NotesFinish(i)
       /\ Fail(ok)
  /\ UNCHANGED << taskFrame, store, lastWrite >>

\* cleanupOldChunks: multiRemove(chunkKeys)
NotesCleanupRemove(i) ==
  /\ i \in 1..Len(tasks)
  /\ tasks[i].kind = "saveNotes"
  /\ tasks[i].pc = "cleanupRemove"
  /\ \E ok \in OkChoices :
       /\ IF ok
          THEN /\ store' = MultiRemoveChunks(store, tasks[i].chunkKeys)
               /\ tasks' = [tasks EXCEPT ![i].pc = "cleanupMeta"]
               /\ UNCHANGED << notes, committed >>
          ELSE /\ store' = store
               /\ tasks' = [tasks EXCEPT ![i].pc = "done", ![i].outcome = "fulfilled"]
               /\ NotesFinish(i)
       /\ Fail(ok)
       /\ Wrote(ok, TaskWrite(i))
  /\ UNCHANGED taskFrame

\* cleanupOldChunks: removeItem(NOTES_META)
NotesCleanupMeta(i) ==
  /\ i \in 1..Len(tasks)
  /\ tasks[i].kind = "saveNotes"
  /\ tasks[i].pc = "cleanupMeta"
  /\ \E ok \in OkChoices :
       /\ store' = IF ok THEN RemoveItem(store, K_NOTES_META) ELSE store
       /\ tasks' = [tasks EXCEPT ![i].pc = "done", ![i].outcome = "fulfilled"]
       /\ NotesFinish(i)
       /\ Fail(ok)
       /\ Wrote(ok, TaskWrite(i))
  /\ UNCHANGED taskFrame

\* a catch block that neither rethrows nor returns: the promise of the task
\* stays pending
NotesCatchNeverSettles(i) ==
  /\ i \in 1..Len(tasks)
  /\ tasks[i].kind = "saveNotes"
  /\ tasks[i].pc = "catch"
  /\ \E ok \in OkChoices :
       /\ store' = IF ok THEN RemoveItem(store, K_NOTES_TMP) ELSE store
       /\ tasks' = [tasks EXCEPT ![i].pc = "done"]
       /\ Fail(ok)
       /\ Wrote(ok, TaskWrite(i))
  /\ UNCHANGED << taskFrame, notes, committed >>

\* the catch block of saveNotes: best-effort removeItem(NOTES_TMP), rethrow
NotesCatch(i) ==
  /\ i \in 1..Len(tasks)
  /\ tasks[i].kind = "saveNotes"
  /\ tasks[i].pc = "catch"
  /\ \E ok \in OkChoices :
       /\ store' = IF ok THEN RemoveItem(store, K_NOTES_TMP) ELSE store
       /\ tasks' = [tasks EXCEPT ![i].pc = "done", ![i].outcome = "rejected"]
       /\ Fail(ok)
       /\ Wrote(ok, TaskWrite(i))
  /\ UNCHANGED << taskFrame, notes, committed >>


\* ------------------------------------------------ favorites and history
DirectWrite == [op |-> "direct", task |-> 0]

directFrame == << precise, app, projects, projectsRef, notes, tasks, saveQueueRef,
                  clear, nextId, crashes, clears, committed, crashInfo, loadOk, sideVars >>

\* setFavoriteProjects .. setFavoriteNotes: safeStorageOperation(setItem), then
\* the state setter
SetFavorite(kind, favs) ==
  /\ app = "ready"
  /\ directCalls < MaxDirectCalls
  /\ \E ok \in OkChoices :
       /\ store' = IF ok THEN SetItem(store, K_FAV(kind), [json |-> favs]) ELSE store
       /\ Fail(ok)
       /\ Wrote(ok, DirectWrite)
  /\ favorites' = [favorites EXCEPT ![kind] = favs]
  /\ directCalls' = directCalls + 1
  /\ UNCHANGED << directFrame, quickCalcHistory, now >>

\* the write and state update shared by the three history operations, for a
\* provider that makes at most limit direct calls
HistoryCall(limit, newHistory) ==
  /\ app = "ready"
  /\ directCalls < limit
  /\ \E ok \in OkChoices :
       /\ store' = IF ok THEN SetItem(store, K_HISTORY, [json |-> newHistory]) ELSE store
       /\ Fail(ok)
       /\ Wrote(ok, DirectWrite)
  /\ quickCalcHistory' = newHistory
  /\ directCalls' = directCalls + 1
  /\ UNCHANGED << directFrame, favorites >>

HistoryWrite(newHistory) == HistoryCall(MaxDirectCalls, newHistory)

\* addQuickCalcHistory(item): [newItem, ...quickCalcHistory]
AddHistoryWithin(limit) ==
  /\ HistoryCall(limit, <<now>> \o quickCalcHistory)
  /\ now' = now + 1

AddQuickCalcHistory == AddHistoryWithin(MaxDirectCalls)

\* clearQuickCalcHistory()
ClearQuickCalcHistory ==
  /\ HistoryWrite(<< >>)
  /\ now' = now

\* removeQuickCalcHistoryItem(itemId)
RemoveHistoryWithin(limit, itemId) ==
  /\ \E x \in 1..Len(quickCalcHistory) : quickCalcHistory[x] = itemId
  /\ HistoryCall(limit, SelectSeq(quickCalcHistory, LAMBDA x : x # itemId))
  /\ now' = now

RemoveQuickCalcHistoryItem(itemId) == RemoveHistoryWithin(MaxDirectCalls, itemId)

\* ------------------------------------------------------------ clearAllData
ClearWrite == [op |-> "clear", task |-> 0]

ClearedKeys ==
  {K_PROJECTS, K_NOTES, K_NOTES_TMP, K_NOTES_META, K_HISTORY} \cup {K_FAV(k) : k \in FavKinds}

clearFrame == << precise, app, projectsRef, tasks, saveQueueRef, now, nextId, crashes,
                 directCalls, crashInfo, loadOk, sideVars >>

\* the state resets at the end of clearAllData
ClearFinish ==
  /\ projects' = << >>
  /\ notes' = << >>
  /\ favorites' = NoFavorites
  /\ quickCalcHistory' = << >>

\* clearAllData, up to multiRemove of the ten named keys; a throw is rethrown
ClearAllData ==
  /\ app = "ready"
  /\ clear.pc = "idle"
  /\ clears < MaxClears
  /\ \E ok \in OkChoices :
       /\ store' = IF ok THEN MultiRemove(store, ClearedKeys) ELSE store
       /\ clear' = [clear EXCEPT !.pc = IF ok THEN "cleanup" ELSE "idle"]
       /\ committed' = IF ok THEN NothingCommitted ELSE committed
       /\ Fail(ok)
       /\ Wrote(ok, ClearWrite)
  /\ clears' = clears + 1
  /\ UNCHANGED << clearFrame, projects, notes, favorites, quickCalcHistory >>

\* cleanupOldChunks inside clearAllData: getAllKeys
ClearCleanupKeys ==
  /\ clear.pc = "cleanup"
  /\ \E ok \in OkChoices :
       /\ IF ok /\ ChunkKeysOf(store) # {}
          THEN /\ clear' = [pc |-> "cleanupRemove", chunkKeys |-> ChunkKeysOf(store)]
               /\ UNCHANGED << projects, notes, favorites, quickCalcHistory >>
          ELSE /\ clear' = [pc |-> "idle", chunkKeys |-> {}]
               /\ ClearFinish
       /\ Fail(ok)
  /\ UNCHANGED << clearFrame, store, clears, lastWrite, committed >>

\* cleanupOldChunks inside clearAllData: multiRemove(chunkKeys)
ClearCleanupRemove ==
  /\ clear.pc = "cleanupRemove"
  /\ \E ok \in OkChoices :
       /\ IF ok
          THEN /\ store' = MultiRemoveChunks(store, clear.chunkKeys)
               /\ clear' = [clear EXCEPT !.pc = "cleanupMeta"]
               /\ UNCHANGED << projects, notes, favorites, quickCalcHistory >>
          ELSE /\ store' = store
               /\ clear' = [pc |-> "idle", chunkKeys |-> {}]
               /\ ClearFinish
       /\ Fail(ok)
       /\ Wrote(ok, ClearWrite)
  /\ UNCHANGED << clearFrame, clears, committed >>

\* cleanupOldChunks inside clearAllData: removeItem(NOTES_META)
ClearCleanupMeta ==
  /\ clear.pc = "cleanupMeta"
  /\ \E ok \in OkChoices :
       /\ store' = IF ok THEN RemoveItem(store, K_NOTES_META) ELSE store
       /\ Fail(ok)
       /\ Wrote(ok, ClearWrite)
  /\ clear' = [pc |-> "idle", chunkKeys |-> {}]
  /\ ClearFinish
  /\ UNCHANGED << clearFrame, clears, committed >>

\* ------------------------------------------------------------------- crash
\* a saveNotes has written the staging key and not yet all of its primary
\* or chunk keys
InWindow(t) == t.kind = "saveNotes" /\ t.pc \in {"staged", "chunk"}

\* the process dies: memory is lost, the store stays
Crash ==
  /\ app = "ready"
  /\ crashes < MaxCrashes
  /\ crashes' = crashes + 1
  /\ crashInfo' = [window |-> \E i \in 1..Len(tasks) : InWindow(tasks[i]),
                    clean |-> committed.valid /\ lastWrite = TaskWrite(committed.by)]
  /\ committed' = [committed EXCEPT !.by = 0]
  /\ app' = "booting"
  /\ projects' = << >>
  /\ projectsRef' = << >>
  /\ notes' = << >>
  /\ favorites' = NoFavorites
  /\ quickCalcHistory' = << >>
  /\ tasks' = << >>
  /\ saveQueueRef' = ResolvedPromise
  /\ clear' = [pc |-> "idle", chunkKeys |-> {}]
  /\ lastWrite' = [op |-> "none", task |-> 0]
  /\ UNCHANGED << store, precise, now, nextId, failures, directCalls, clears, loadOk, sideVars >>

\* -------------------------------------------------------------------- Next
TaskSteps ==
  \/ \E i \in 1..MaxTasks : StartTask(i)
  \/ \E i \in 1..MaxTasks : NotesStage(i)
  \/ \E i \in 1..MaxTasks : NotesBranch(i)
  \/ \E i \in 1..MaxTasks : NotesChunk(i)
  \/ \E i \in 1..MaxTasks : NotesRemovePrimary(i)
  \/ \E i \in 1..MaxTasks : NotesCommit(i)
  \/ \E i \in 1..MaxTasks : NotesCleanupKeys(i)
  \/ \E i \in 1..MaxTasks : NotesCleanupRemove(i)
  \/ \E i \in 1..MaxTasks : NotesCleanupMeta(i)

\* the provider with fallible storage calls, without process death
Next ==
  \/ InitializeStorage
  \/ ProjectsEffect
  \/ \E sid \in ShutterIds, name \in 1..MaxName : UpdateShutter(sid, name)
  \/ CreateNote
  \/ TaskSteps
  \/ \E i \in 1..MaxTasks : SaveProjectsWrite(i)
  \/ \E i \in 1..MaxTasks : NotesCatch(i)

Spec == Init /\ [][Next]_vars

\* note saves and process death, no storage call throws
NextCrash ==
  \/ InitializeStorage
  \/ CreateNote
  \/ TaskSteps
  \/ Crash

SpecCrash == InitWith(MaxFailures, InitStores, BOOLEAN) /\ [][NextCrash]_vars

\* note saves together with the operations that write outside the queue, on
\* a store that holds one note; no storage call throws
NextWrites ==
  \/ InitializeStorage
  \/ CreateNote
  \/ TaskSteps
  \/ \E kind \in FavKinds, favs \in FavValues : SetFavorite(kind, favs)
  \/ AddQuickCalcHistory
  \/ ClearQuickCalcHistory
  \/ \E itemId \in 1..now : RemoveQuickCalcHistoryItem(itemId)
  \/ ClearAllData
  \/ ClearCleanupKeys
  \/ ClearCleanupRemove
  \/ ClearCleanupMeta

SpecWrites == InitWith(MaxFailures, {DirectStore}, {TRUE}) /\ [][NextWrites]_vars

\* ------------------------------------------------------------ loading alone
\* the stores a load can find: every named key absent, well-formed or
\* malformed, with or without chunk keys of the old format
Optional(key, values) == {<< >>} \cup {key :> v : v \in values}

StoredProjectsValues == {StringifyProjects(SeedProjects), Unparseable, NullLiteral}
StoredListValues == {[json |-> <<"p1">>], Unparseable}
StoredHistoryValues == {[json |-> <<1>>], Unparseable}
StoredNotesValues == {StringifyNotes(<<0>>), <<GARBAGE>>, StringifyNotes(<<NULL_ITEM>>)}
StoredChunkValues ==
  { << >>,
    (0 :> StringifyNotes(<<0>>)),
    (0 :> StringifyNotes(<<0>>)) @@ (1 :> StringifyNotes(<<1>>)),
    (0 :> StringifyNotes(<<0>>)) @@ (1 :> <<GARBAGE>>) }

FavoritesStored(v) == [k \in {K_FAV(kind) : kind \in FavKinds} |-> v]

LoadStores ==
  { [kv |-> p @@ f @@ h @@ n @@ m, chunk |-> c] :
      p \in Optional(K_PROJECTS, StoredProjectsValues),
      f \in {<< >>} \cup {FavoritesStored(v) : v \in StoredListValues},
      h \in Optional(K_HISTORY, StoredHistoryValues),
      n \in Optional(K_NOTES, StoredNotesValues),
      m \in Optional(K_LEGACY_META, {[totalChunks |-> 2, version |-> "1.0"]}),
      c \in StoredChunkValues }

\* the load on any of these stores, any of its reads throwing
InitLoad ==
  /\ ProviderInit(MaxFailures - Cardinality(LoadReads), LoadStores, {TRUE})
  /\ ChunkerIdle
  /\ ImagesIdle({"web"})
  /\ lastCall = NoCall

NextLoad == InitializeStorage

SpecLoad == InitLoad /\ [][NextLoad]_vars

providerFrame == << store, precise, app, projects, projectsRef, notes, favorites,
                    quickCalcHistory, tasks, saveQueueRef, clear, now, nextId,
                    failures, crashes, directCalls, clears, lastWrite, committed,
                    crashInfo, loadOk, loadFailed >>

\* ------------------------------------------------------------ image store
\* an inline image 'data:image/...;base64,<payload>' and an external
\* reference 'file://<images directory>/<name>'
Inline(payload) == [form |-> "inline", id |-> payload]
FileRef(name) == [form |-> "file", id |-> name]
\* a 'data:image/' string with nothing after the comma
NoData == Inline(0)
\* a string that starts with neither 'file://' nor 'data:image/'
UnknownFormat == [form |-> "other", id |-> 1]

\* image.startsWith('file://'): persistedImages.push(image)
PassThroughCopying(acc, image) ==
  [out |-> Append(acc.out, FileRef(acc.next)),
   files |-> (acc.next :> acc.files[image.id]) @@ acc.files,
   next |-> acc.next + 1]
PassThrough(acc, image) == [acc EXCEPT !.out = Append(acc.out, image)]

\* image.startsWith('data:image/'): the payload is written to a new file and
\* its reference pushed; when writeAsStringAsync throws, the catch of the
\* iteration goes on without the image
WriteBlobKeepingInline(acc, image, ok) ==
  IF ok
  THEN [out |-> Append(acc.out, FileRef(acc.next)),
        files |-> (acc.next :> image.id) @@ acc.files,
        next |-> acc.next + 1]
  ELSE [acc EXCEPT !.out = Append(acc.out, image)]
WriteBlob(acc, image, ok) ==
  IF ok
  THEN [out |-> Append(acc.out, FileRef(acc.next)),
        files |-> (acc.next :> image.id) @@ acc.files,
        next |-> acc.next + 1]
  ELSE acc

\* one iteration of the loop of persistImagesIfNeeded
PersistOne(acc, image, ok) ==
  IF image.form = "file" THEN PassThrough(acc, image)
  ELSE IF image.form = "inline"
  THEN IF image = NoData THEN acc ELSE WriteBlob(acc, image, ok)
  ELSE acc

\* the loop from index i; failed: the indices whose write throws
RECURSIVE PersistLoop(_, _, _, _)
PersistLoop(images, i, failed, acc) ==
  IF i > Len(images) THEN acc
  ELSE PersistLoop(images, i + 1, failed, PersistOne(acc, images[i], i \notin failed))

persistImagesIfNeeded(os, images, failed, fs, next) ==
  IF ~images.defined \/ images.list = << >>
  THEN [result |-> Undefined, files |-> fs, next |-> next]
  ELSE IF os = "web"
  THEN [result |-> images, files |-> fs, next |-> next]
  ELSE LET acc == PersistLoop(images.list, 1, failed, [out |-> << >>, files |-> fs, next |-> next])
       IN [result |-> IF Len(acc.out) > 0 THEN Defined(acc.out) ELSE Undefined,
           files |-> acc.files, next |-> acc.next]

\* the indices at which persistImagesIfNeeded calls writeAsStringAsync
WritesOf(os, images) ==
  IF os = "web" \/ ~images.defined THEN {}
  ELSE {i \in 1..Len(images.list) :
          images.list[i].form = "inline" /\ images.list[i] # NoData}

\* the test made on the first image only: note.images[0].startsWith('data:image/')
NeedsSanitizeFirst(note) ==
  note.images.defined /\ Len(note.images.list) > 0 /\ note.images.list[1].form = "inline"

\* note.images && note.images.some(img => img.startsWith('data:image/'))
NeedsSanitize(note) ==
  note.images.defined /\ \E i \in 1..Len(note.images.list) : note.images.list[i].form = "inline"

\* one iteration of the loop of sanitizeNotesImages
SanitizeOne(os, acc, note, failedHere) ==
  IF NeedsSanitize(note)
  THEN LET r == persistImagesIfNeeded(os, note.images, failedHere, acc.files, acc.next)
       IN [out |-> Append(acc.out, [note EXCEPT !.images = r.result]),
           files |-> r.files, next |-> r.next]
  ELSE [acc EXCEPT !.out = Append(acc.out, note)]

RECURSIVE SanitizeLoop(_, _, _, _, _)
SanitizeLoop(os, ns, n, failed, acc) ==
  IF n > Len(ns) THEN acc
  ELSE SanitizeLoop(os, ns, n + 1, failed,
         SanitizeOne(os, acc, ns[n], {i \in 1..Len(ns[n].images.list) : <<n, i>> \in failed}))

\* sanitizeNotesImages on either platform; failed: the pairs (note, image)
\* whose write throws
sanitizeNotesImagesOn(os, ns, failed, fs, next) ==
  IF os = "web" THEN [out |-> ns, files |-> fs, next |-> next]
  ELSE SanitizeLoop(os, ns, 1, failed, [out |-> << >>, files |-> fs, next |-> next])

\* the pairs (note, image) at which a sanitize calls writeAsStringAsync
SanitizeWrites(os, ns) ==
  IF os = "web" THEN {}
  ELSE {w \in (1..Len(ns)) \X (1..MaxImages) :
          NeedsSanitize(ns[w[1]]) /\ w[2] \in WritesOf(os, ns[w[1]].images)}

\* JSON.stringify(sanitizedNotes): a key whose value is undefined is left out
NoteToJSON(note) ==
  IF note.images.defined THEN [id |-> note.id, images |-> note.images.list]
  ELSE [id |-> note.id]
StringifyNoteRecords(ns) == [json |-> [n \in 1..Len(ns) |-> NoteToJSON(ns[n])]]

\* the arguments of the calls
RECURSIVE ListsUpTo(_, _)
ListsUpTo(S, n) ==
  IF n = 0 THEN {<< >>}
  ELSE LET shorter == ListsUpTo(S, n - 1)
       IN shorter \cup {Append(t, c) : t \in {x \in shorter : Len(x) = n - 1}, c \in S}

ImageValues == {Inline(1), Inline(2), FileRef(1), NoData, UnknownFormat}
ImageLists == {Undefined} \cup {Defined(l) : l \in ListsUpTo(ImageValues, MaxImages)}
NoteLists ==
  {[n \in 1..Len(l) |-> [id |-> n, images |-> l[n]]] : l \in ListsUpTo(ImageLists, MaxImageNotes)}

imageFrame == << providerFrame, chunkVars, lastCall, platformOS >>

\* persistImagesIfNeeded(images)
PersistImagesIfNeeded ==
  /\ persistCall.op = "none"
  /\ ~sanitizeCall.done
  /\ \E images \in ImageLists : \E failed \in SUBSET WritesOf(platformOS, images) :
       LET r == persistImagesIfNeeded(platformOS, images, failed, files, nextFile) IN
       /\ persistCall' = [op |-> "persist", images |-> images, failed |-> failed,
                           result |-> r.result, filesBefore |-> files]
       /\ files' = r.files
       /\ nextFile' = r.next
  /\ UNCHANGED << imageFrame, sanitizeCall >>

\* persistImagesIfNeeded applied to what the previous call returned
PersistAgain ==
  /\ persistCall.op = "persist"
  /\ \E failed \in SUBSET WritesOf(platformOS, persistCall.result) :
       LET r == persistImagesIfNeeded(platformOS, persistCall.result, failed, files, nextFile) IN
       /\ persistCall' = [op |-> "again", images |-> persistCall.result, failed |-> failed,
                           result |-> r.result, filesBefore |-> files]
       /\ files' = r.files
       /\ nextFile' = r.next
  /\ UNCHANGED << imageFrame, sanitizeCall >>

\* saveNotes, its first statements: sanitizedNotes = await
\* sanitizeNotesImages(newNotes); dataString = JSON.stringify(sanitizedNotes)
SanitizeNotesImages ==
  /\ persistCall.op = "none"
  /\ ~sanitizeCall.done
  /\ \E newNotes \in NoteLists : \E failed \in SUBSET SanitizeWrites(platformOS, newNotes) :
       LET r == sanitizeNotesImagesOn(platformOS, newNotes, failed, files, nextFile) IN
       /\ sanitizeCall' = [done |-> TRUE, notes |-> newNotes, failed |-> failed,
                            sanitizedNotes |-> r.out,
                            dataString |-> StringifyNoteRecords(r.out),
                            filesBefore |-> files]
       /\ files' = r.files
       /\ nextFile' = r.next
  /\ UNCHANGED << imageFrame, persistCall >>

InitImages ==
  /\ ProviderInit(0, {BaseStore}, {TRUE})
  /\ ChunkerIdle
  /\ ImagesIdle({"web", "ios"})
  /\ lastCall = NoCall

NextImages ==
  \/ PersistImagesIfNeeded
  \/ PersistAgain
  \/ SanitizeNotesImages

SpecImages == InitImages /\ [][NextImages]_vars

\* ------------------------------------------------------------ the splitter
\* the code units a string is made of: one-, two- and three-byte characters
\* and the halves of a surrogate pair
Alphabet == {1, 2, EURO, HIGH_SURROGATE, LOW_SURROGATE}

RECURSIVE StringsUpTo(_)
StringsUpTo(n) ==
  IF n = 0 THEN {<< >>}
  ELSE LET shorter == StringsUpTo(n - 1)
       IN shorter \cup {Append(t, c) : t \in {x \in shorter : Len(x) = n - 1}, c \in Alphabet}

\* splitByBytes(str, maxBytes) is called
SplitByBytes ==
  /\ splitter = "none"
  /\ splitOutput' = splitByBytes(splitInput, splitLimit)
  /\ splitter' = "splitByBytes"
  /\ UNCHANGED << providerFrame, imageVars, lastCall, splitInput, splitLimit, joined >>

\* splitByBytesLegacy(str, maxBytes) is called
SplitByBytesLegacy ==
  /\ splitter = "none"
  /\ splitOutput' = splitByBytesLegacy(splitInput, splitLimit)
  /\ splitter' = "splitByBytesLegacy"
  /\ UNCHANGED << providerFrame, imageVars, lastCall, splitInput, splitLimit, joined >>

\* splitStringByBytes(str, maxBytes) is called
SplitStringByBytes ==
  /\ splitter = "none"
  /\ splitOutput' = splitStringByBytes(splitInput, splitLimit, precise)
  /\ splitter' = "splitStringByBytes"
  /\ UNCHANGED << providerFrame, imageVars, lastCall, splitInput, splitLimit, joined >>

\* joinChunks(chunks) is called on the result
JoinChunks ==
  /\ splitter # "none"
  /\ ~joined.done
  /\ joined' = [done |-> TRUE, text |-> joinChunks(splitOutput)]
  /\ UNCHANGED << providerFrame, imageVars, lastCall, splitInput, splitLimit, splitter,
                  splitOutput >>

InitChunk ==
  /\ ProviderInit(0, {BaseStore}, BOOLEAN)
  /\ splitInput \in StringsUpTo(MaxStrLen)
  /\ splitLimit \in 1..MaxLimit
  /\ splitter = "none"
  /\ splitOutput = << >>
  /\ joined = [done |-> FALSE, text |-> << >>]
  /\ ImagesIdle({"web"})
  /\ lastCall = NoCall

NextChunk ==
  \/ SplitByBytes
  \/ SplitByBytesLegacy
  \/ SplitStringByBytes
  \/ JoinChunks

SpecChunk == InitChunk /\ [][NextChunk]_vars


\* ------------------------------------------------------------ repository
\* a tree persisted by an earlier session: two projects, two buildings,
\* two zones, three shutters
RepoProjects ==
  << [id |-> "p1", createdAt |-> 0, updatedAt |-> 0,
      buildings |-> <<
        [id |-> "b1", projectId |-> "p1", createdAt |-> 0,
         functionalZones |-> <<
           [id |-> "z1", buildingId |-> "b1", createdAt |-> 0,
            shutters |-> << Shutter("s1", "z1"), Shutter("s2", "z1") >> ],
           [id |-> "z2", buildingId |-> "b1", createdAt |-> 0,
            shutters |-> << Shutter("s3", "z2") >> ] >> ],
        [id |-> "b2", projectId |-> "p1", createdAt |-> 0,
         functionalZones |-> << >> ] >> ],
     [id |-> "p2", createdAt |-> 0, updatedAt |-> 0, buildings |-> << >>] >>

RepoFavorites ==
  [PROJECTS |-> <<"p1">>, BUILDINGS |-> <<"b1", "b2">>, ZONES |-> <<"z1", "z2">>,
   SHUTTERS |-> <<"s1", "s2">>, NOTES |-> <<0>>]

\* the store of that session: the tree, one note, the five favorites lists
RepoStore ==
  [kv |-> [k \in {K_PROJECTS, K_NOTES} \cup {K_FAV(kind) : kind \in FavKinds} |->
             IF k = K_PROJECTS THEN StringifyProjects(RepoProjects)
             ELSE IF k = K_NOTES THEN StringifyNotes(<<0>>)
             ELSE [json |-> RepoFavorites[CHOOSE kind \in FavKinds : K_FAV(kind) = k]]],
   chunk |-> << >>]

\* array.filter(e => !ids.includes(e.id))
Keep(seq, ids) == SelectSeq(seq, LAMBDA e : e.id \notin ids)
\* favorites.filter(fId => !ids.includes(fId))
KeepIds(seq, ids) == SelectSeq(seq, LAMBDA e : e \notin ids)

\* findIndex: the first index that satisfies the test
FirstIndex(S) == CHOOSE i \in S : \A j \in S : i <= j

BuildingHasZone(b, zid) ==
  \E k \in 1..Len(b.functionalZones) : b.functionalZones[k].id = zid
ProjectHasZone(p, zid) ==
  \E j \in 1..Len(p.buildings) : BuildingHasZone(p.buildings[j], zid)
ProjectHasBuilding(p, bid) == \E j \in 1..Len(p.buildings) : p.buildings[j].id = bid

\* the test of the search loop of an operation on an entity of this kind
InProject(p, kind, id) ==
  CASE kind = "project" -> p.id = id
    [] kind = "building" -> ProjectHasBuilding(p, id)
    [] kind = "zone" -> ProjectHasZone(p, id)
    [] kind = "shutter" -> ProjectHasShutter(p, id)

Found(ps, kind, id) == \E i \in 1..Len(ps) : InProject(ps[i], kind, id)
IndexOf(ps, kind, id) == FirstIndex({i \in 1..Len(ps) : InProject(ps[i], kind, id)})

\* generateUniqueId() for an entity of the tree
UniqueId(n) == "u" \o ToString(n)

\* the project at index i replaced by p, as newProjects[i] = {...}
ReplaceProject(ps, i, p) == [ps EXCEPT ![i] = p]

\* the building at index j of project p replaced by b, by slice and spread
ReplaceBuilding(p, j, b, t) ==
  [p EXCEPT !.buildings = SubSeq(p.buildings, 1, j - 1) \o <<b>>
                            \o SubSeq(p.buildings, j + 1, Len(p.buildings)),
            !.updatedAt = t]

\* the zone at index k of building b replaced by z
ReplaceZone(b, k, z) ==
  [b EXCEPT !.functionalZones = SubSeq(b.functionalZones, 1, k - 1) \o <<z>>
                                  \o SubSeq(b.functionalZones, k + 1, Len(b.functionalZones))]

BuildingIndex(p, kind, id) ==
  FirstIndex({j \in 1..Len(p.buildings) :
    CASE kind = "building" -> p.buildings[j].id = id
      [] kind = "zone" -> BuildingHasZone(p.buildings[j], id)
      [] kind = "shutter" -> BuildingHasShutter(p.buildings[j], id)})

ZoneIndex(b, kind, id) ==
  FirstIndex({k \in 1..Len(b.functionalZones) :
    CASE kind = "zone" -> b.functionalZones[k].id = id
      [] kind = "shutter" -> ZoneHasShutter(b.functionalZones[k], id)})

\* the snapshot of a single delete: the entity filtered out of its parent's
\* list in the first project that holds it, that project's updatedAt bumped
DeleteInProject(p, kind, id, t) ==
  IF kind = "building"
  THEN [p EXCEPT !.buildings = Keep(p.buildings, {id}), !.updatedAt = t]
  ELSE LET j == BuildingIndex(p, kind, id)
           b == p.buildings[j]
       IN IF kind = "zone"
          THEN ReplaceBuilding(p, j, [b EXCEPT !.functionalZones = Keep(b.functionalZones, {id})], t)
          ELSE LET k == ZoneIndex(b, kind, id)
                   z == b.functionalZones[k]
               IN ReplaceBuilding(p, j,
                    ReplaceZone(b, k, [z EXCEPT !.shutters = Keep(z.shutters, {id})]), t)

DeleteInTree(ps, kind, id, t) ==
  IF kind = "project" THEN Keep(ps, {id})
  ELSE LET i == IndexOf(ps, kind, id)
       IN ReplaceProject(ps, i, DeleteInProject(ps[i], kind, id, t))

\* the snapshot of an update whose updates carry no field of the model:
\* {...entity, ...updates}, the project's updatedAt bumped
UpdateInTree(ps, kind, id, t) ==
  LET i == IndexOf(ps, kind, id)
  IN ReplaceProject(ps, i, [ps[i] EXCEPT !.updatedAt = t])

\* createBuilding: the new building appended to the project's buildings
CreateBuildingTree(ps, projectId, newId, t) ==
  LET i == IndexOf(ps, "project", projectId)
      newBuilding == [id |-> newId, projectId |-> projectId, createdAt |-> t,
                      functionalZones |-> << >>]
  IN ReplaceProject(ps, i,
       [ps[i] EXCEPT !.buildings = Append(ps[i].buildings, newBuilding), !.updatedAt = t])

\* createShutter: the new shutter appended to the zone's shutters
CreateShutterTree(ps, zoneId, newId, t) ==
  LET i == IndexOf(ps, "zone", zoneId)
      j == BuildingIndex(ps[i], "zone", zoneId)
      b == ps[i].buildings[j]
      k == ZoneIndex(b, "zone", zoneId)
      z == b.functionalZones[k]
      newShutter == [Shutter(newId, zoneId) EXCEPT !.createdAt = t, !.updatedAt = t]
  IN ReplaceProject(ps, i,
       ReplaceBuilding(ps[i], j,
         ReplaceZone(b, k, [z EXCEPT !.shutters = Append(z.shutters, newShutter)]), t))

\* the snapshots of the batch deletes: projects.map(... filter(!ids.includes))
DeleteBuildingsTree(ps, ids) ==
  [i \in 1..Len(ps) |-> [ps[i] EXCEPT !.buildings = Keep(ps[i].buildings, ids)]]

DeleteZonesTree(ps, ids) ==
  [i \in 1..Len(ps) |-> [ps[i] EXCEPT !.buildings =
    [j \in 1..Len(ps[i].buildings) |->
      [ps[i].buildings[j] EXCEPT !.functionalZones =
        Keep(ps[i].buildings[j].functionalZones, ids)]]]]

DeleteShuttersOfBuilding(b, ids) ==
  [b EXCEPT !.functionalZones =
    [k \in 1..Len(b.functionalZones) |->
      [b.functionalZones[k] EXCEPT !.shutters = Keep(b.functionalZones[k].shutters, ids)]]]

DeleteShuttersTree(ps, ids) ==
  [i \in 1..Len(ps) |-> [ps[i] EXCEPT !.buildings =
    [j \in 1..Len(ps[i].buildings) |-> DeleteShuttersOfBuilding(ps[i].buildings[j], ids)]]]

\* notes.filter(n => !ids.includes(n.id)); a note is its id
DeleteNotesList(ns, ids) == SelectSeq(ns, LAMBDA n : n \notin ids)

\* what the caller of a repository operation sees before the call
Snapshot == [projects |-> projects, notes |-> notes, favorites |-> favorites]

\* the call is recorded: its operation, its ids, what it returned at once
\* ("pending": it awaits the task it enqueued), the task it enqueued
Called(op, ids, ret, task) ==
  lastCall' = [n |-> lastCall.n + 1, op |-> op, ids |-> ids, ret |-> ret, task |-> task,
               before |-> Snapshot]

\* what the promise of the last call resolved to
Returned(call) ==
  IF call.task = 0 THEN call.ret
  ELSE IF tasks[call.task].outcome = "pending" THEN "pending"
  ELSE IF tasks[call.task].outcome = "fulfilled" THEN "value"
  ELSE IF call.op \in {"deleteBuildings", "deleteZones", "deleteShuttersBatch",
                       "deleteNotes", "deleteNote"}
  THEN "false" ELSE "throws"

\* safeStorageOperation(setItem(key, favorites)) and the state setter, inside
\* an operation
FavoriteWrite(kind, favs) ==
  /\ \E ok \in OkChoices :
       /\ store' = IF ok THEN SetItem(store, K_FAV(kind), [json |-> favs]) ELSE store
       /\ Fail(ok)
       /\ Wrote(ok, DirectWrite)
  /\ favorites' = [favorites EXCEPT ![kind] = favs]

callFrame == << precise, app, projectsRef, quickCalcHistory, clear, crashes, directCalls,
                clears, committed, crashInfo, loadOk, chunkVars, loadFailed, imageVars >>

\* a call that returns at its not-found test
NotFoundSaving(op, id, ret) ==
  /\ Called(op, {id}, ret, 0)
  /\ Enqueue("saveProjects", projectsRef, << >>, NoUpdate)
  /\ UNCHANGED << store, projects, notes, favorites, now, nextId,
                  failures, lastWrite, callFrame >>
NotFound(op, id, ret) ==
  /\ Called(op, {id}, ret, 0)
  /\ UNCHANGED << store, projects, notes, favorites, tasks, saveQueueRef, now, nextId,
                  failures, lastWrite, callFrame >>

\* a call that enqueues saveProjects(newProjects) and awaits it
SavesProjects(op, id, newProjects) ==
  /\ Enqueue("saveProjects", newProjects, << >>, NoUpdate)
  /\ Called(op, {id}, "pending", Len(tasks) + 1)
  /\ now' = now + 1
  /\ UNCHANGED << projects, notes, callFrame >>

\* updateProject(id, updates)
UpdateProject(id) ==
  /\ app = "ready"
  /\ lastCall.n < MaxCalls
  /\ IF ~Found(projectsRef, "project", id)
     THEN NotFound("updateProject", id, "null")
     ELSE /\ Len(tasks) < MaxTasks
          /\ SavesProjects("updateProject", id, UpdateInTree(projectsRef, "project", id, now))
          /\ UNCHANGED << store, favorites, nextId, failures, lastWrite >>

\* updateBuilding(buildingId, updates)
UpdateBuilding(id) ==
  /\ app = "ready"
  /\ lastCall.n < MaxCalls
  /\ IF ~Found(projectsRef, "building", id)
     THEN NotFound("updateBuilding", id, "null")
     ELSE /\ Len(tasks) < MaxTasks
          /\ SavesProjects("updateBuilding", id, UpdateInTree(projectsRef, "building", id, now))
          /\ UNCHANGED << store, favorites, nextId, failures, lastWrite >>

\* updateFunctionalZone(zoneId, updates)
UpdateFunctionalZone(id) ==
  /\ app = "ready"
  /\ lastCall.n < MaxCalls
  /\ IF ~Found(projectsRef, "zone", id)
     THEN NotFound("updateFunctionalZone", id, "null")
     ELSE /\ Len(tasks) < MaxTasks
          /\ SavesProjects("updateFunctionalZone", id, UpdateInTree(projectsRef, "zone", id, now))
          /\ UNCHANGED << store, favorites, nextId, failures, lastWrite >>

\* updateShutter(shutterId, updates) on a shutter that projectsRef.current
\* does not hold
UpdateShutterNotFound(id) ==
  /\ app = "ready"
  /\ lastCall.n < MaxCalls
  /\ ~Found(projectsRef, "shutter", id)
  /\ NotFound("updateShutter", id, "null")

\* createBuilding(projectId, buildingData)
CreateBuilding(projectId) ==
  /\ app = "ready"
  /\ lastCall.n < MaxCalls
  /\ IF ~Found(projectsRef, "project", projectId)
     THEN NotFound("createBuilding", projectId, "null")
     ELSE /\ Len(tasks) < MaxTasks
          /\ nextId <= MaxNoteId
          /\ SavesProjects("createBuilding", projectId,
               CreateBuildingTree(projectsRef, projectId, UniqueId(nextId), now))
          /\ nextId' = nextId + 1
          /\ UNCHANGED << store, favorites, failures, lastWrite >>

\* createShutter(zoneId, shutterData)
CreateShutter(zoneId) ==
  /\ app = "ready"
  /\ lastCall.n < MaxCalls
  /\ IF ~Found(projectsRef, "zone", zoneId)
     THEN NotFound("createShutter", zoneId, "null")
     ELSE /\ Len(tasks) < MaxTasks
          /\ nextId <= MaxNoteId
          /\ SavesProjects("createShutter", zoneId,
               CreateShutterTree(projectsRef, zoneId, UniqueId(nextId), now))
          /\ nextId' = nextId + 1
          /\ UNCHANGED << store, favorites, failures, lastWrite >>

\* the found branch of the four single deletes of the tree:
\* Promise.all([saveProjects(newProjects), setFavorite...(filtered)])
DeletesAndSaves(op, kind, favKind, id) ==
  /\ Len(tasks) < MaxTasks
  /\ SavesProjects(op, id, DeleteInTree(projectsRef, kind, id, now))
  /\ FavoriteWrite(favKind, KeepIds(favorites[favKind], {id}))
  /\ UNCHANGED nextId

\* deleteProject(id)
DeleteProject(id) ==
  /\ app = "ready"
  /\ lastCall.n < MaxCalls
  /\ IF ~Found(projectsRef, "project", id)
     THEN NotFound("deleteProject", id, "false")
     ELSE DeletesAndSaves("deleteProject", "project", "PROJECTS", id)

\* deleteBuilding(buildingId)
DeleteBuilding(id) ==
  /\ app = "ready"
  /\ lastCall.n < MaxCalls
  /\ IF ~Found(projectsRef, "building", id)
     THEN NotFound("deleteBuilding", id, "false")
     ELSE DeletesAndSaves("deleteBuilding", "building", "BUILDINGS", id)

\* deleteFunctionalZone(zoneId)
DeleteFunctionalZone(id) ==
  /\ app = "ready"
  /\ lastCall.n < MaxCalls
  /\ IF ~Found(projectsRef, "zone", id)
     THEN NotFound("deleteFunctionalZone", id, "false")
     ELSE DeletesAndSaves("deleteFunctionalZone", "zone", "ZONES", id)

\* deleteShutter(shutterId)
DeleteShutter(id) ==
  /\ app = "ready"
  /\ lastCall.n < MaxCalls
  /\ IF ~Found(projectsRef, "shutter", id)
     THEN NotFound("deleteShutter", id, "false")
     ELSE DeletesAndSaves("deleteShutter", "shutter", "SHUTTERS", id)

\* notes.findIndex(n => n.id === id) === -1
NoteFound(ns, id) == \E x \in 1..Len(ns) : ns[x] = id

\* updateNote(id, updates) without images: newNotes[noteIndex] = updatedNote
UpdateNote(id) ==
  /\ app = "ready"
  /\ lastCall.n < MaxCalls
  /\ IF ~NoteFound(notes, id)
     THEN NotFound("updateNote", id, "null")
     ELSE /\ Len(tasks) < MaxTasks
          /\ Enqueue("saveNotes", << >>, notes, NoUpdate)
          /\ Called("updateNote", {id}, "pending", Len(tasks) + 1)
          /\ now' = now + 1
          /\ UNCHANGED << store, projects, notes, favorites, nextId, failures, lastWrite,
                          callFrame >>

\* deleteNote(id) of a note without images: setFavoriteNotes(filtered), then
\* saveNotes(newNotes)
DeleteNote(id) ==
  /\ app = "ready"
  /\ lastCall.n < MaxCalls
  /\ IF ~NoteFound(notes, id)
     THEN NotFound("deleteNote", id, "false")
     ELSE /\ Len(tasks) < MaxTasks
          /\ FavoriteWrite("NOTES", KeepIds(favorites.NOTES, {id}))
          /\ Enqueue("saveNotes", << >>, DeleteNotesList(notes, {id}), NoUpdate)
          /\ Called("deleteNote", {id}, "pending", Len(tasks) + 1)
          /\ UNCHANGED << projects, notes, now, nextId, callFrame >>

\* the three batch deletes of the tree: the snapshot is built from the
\* projects state, setFavorite...(filtered) is awaited, then saveProjects
BatchDeletesAndSaves(op, favKind, ids, newProjects) ==
  /\ app = "ready"
  /\ lastCall.n < MaxCalls
  /\ Len(tasks) < MaxTasks
  /\ FavoriteWrite(favKind, KeepIds(favorites[favKind], ids))
  /\ Enqueue("saveProjects", newProjects, << >>, NoUpdate)
  /\ Called(op, ids, "pending", Len(tasks) + 1)
  /\ UNCHANGED << projects, notes, now, nextId, callFrame >>

\* deleteBuildings(ids)
DeleteBuildings(ids) ==
  BatchDeletesAndSaves("deleteBuildings", "BUILDINGS", ids, DeleteBuildingsTree(projects, ids))

\* deleteZones(ids)
DeleteZones(ids) ==
  BatchDeletesAndSaves("deleteZones", "ZONES", ids, DeleteZonesTree(projects, ids))

\* deleteShuttersBatch(ids)
DeleteShuttersBatch(ids) ==
  BatchDeletesAndSaves("deleteShuttersBatch", "SHUTTERS", ids, DeleteShuttersTree(projects, ids))

\* deleteNotes(ids) of notes without images
DeleteNotes(ids) ==
  /\ app = "ready"
  /\ lastCall.n < MaxCalls
  /\ Len(tasks) < MaxTasks
  /\ FavoriteWrite("NOTES", KeepIds(favorites.NOTES, ids))
  /\ Enqueue("saveNotes", << >>, DeleteNotesList(notes, ids), NoUpdate)
  /\ Called("deleteNotes", ids, "pending", Len(tasks) + 1)
  /\ UNCHANGED << projects, notes, now, nextId, callFrame >>

\* the ids the callers pass: of each kind one that the stored session holds
\* and one that it does not
CallIds ==
  [project |-> {"p1", "p9"}, building |-> {"b1", "b9"}, zone |-> {"z1", "z9"},
   shutter |-> {"s1", "s9"}, note |-> {0, 9}]

\* the id sets the callers of the batch deletes pass
BatchIds ==
  [BUILDINGS |-> {{"b1"}, {"b1", "b2"}, {"b2", "b9"}},
   ZONES |-> {{"z1"}, {"z2", "z9"}},
   SHUTTERS |-> {{"s1"}, {"s1", "s3"}, {"s2", "s9"}},
   NOTES |-> {{0}, {1}, {0, 1}, {9}}]

\* the single-entity operations on the stored session, with note creation;
\* no storage call throws
NextCalls ==
  \/ InitializeStorage
  \/ ProjectsEffect
  \/ \E id \in CallIds.project : UpdateProject(id)
  \/ \E id \in CallIds.project : DeleteProject(id)
  \/ \E id \in CallIds.project : CreateBuilding(id)
  \/ \E id \in CallIds.building : UpdateBuilding(id)
  \/ \E id \in CallIds.building : DeleteBuilding(id)
  \/ \E id \in CallIds.zone : UpdateFunctionalZone(id)
  \/ \E id \in CallIds.zone : DeleteFunctionalZone(id)
  \/ \E id \in CallIds.zone : CreateShutter(id)
  \/ \E id \in CallIds.shutter : UpdateShutterNotFound(id)
  \/ \E id \in CallIds.shutter : DeleteShutter(id)
  \/ \E id \in CallIds.note : UpdateNote(id)
  \/ \E id \in CallIds.note : DeleteNote(id)
  \/ CreateNote
  \/ TaskSteps
  \/ \E i \in 1..MaxTasks : SaveProjectsWrite(i)

SpecCalls == InitWith(MaxFailures, {RepoStore}, {TRUE}) /\ [][NextCalls]_vars

\* the batch deletes on the stored session, with note creation; no storage
\* call throws
NextBatch ==
  \/ InitializeStorage
  \/ ProjectsEffect
  \/ CreateNote
  \/ \E ids \in BatchIds.BUILDINGS : DeleteBuildings(ids)
  \/ \E ids \in BatchIds.ZONES : DeleteZones(ids)
  \/ \E ids \in BatchIds.SHUTTERS : DeleteShuttersBatch(ids)
  \/ \E ids \in BatchIds.NOTES : DeleteNotes(ids)
  \/ TaskSteps
  \/ \E i \in 1..MaxTasks : SaveProjectsWrite(i)

SpecBatch == InitWith(MaxFailures, {RepoStore}, {TRUE}) /\ [][NextBatch]_vars


\* ================================================================== claims
TaskIds == 1..Len(tasks)
StoredProjects == ProcessProjects(Get(store, K_PROJECTS))

\* C1: two updateShutter calls on different shutters, the second submitted
\* before the first one's promise has settled, both persist: once both have
\* resolved, the stored projects document and the observable projects hold
\* both updates.
C1_BothUpdatesPersist ==
  \A i \in TaskIds : \A j \in TaskIds :
    ( /\ j = i + 1
      /\ tasks[i].kind = "saveProjects" /\ tasks[j].kind = "saveProjects"
      /\ tasks[j].overlap
      /\ tasks[i].upd.shutter # tasks[j].upd.shutter
      /\ tasks[i].outcome = "fulfilled" /\ tasks[j].outcome = "fulfilled"
      /\ \A k \in TaskIds : k > j => tasks[k].pc = "queued" )
    => /\ ShutterName(StoredProjects, tasks[i].upd.shutter) = tasks[i].upd.name
       /\ ShutterName(StoredProjects, tasks[j].upd.shutter) = tasks[j].upd.name
       /\ ShutterName(projects, tasks[i].upd.shutter) = tasks[i].upd.name
       /\ ShutterName(projects, tasks[j].upd.shutter) = tasks[j].upd.name

\* C2: enqueued tasks run one at a time and in submission order: never are
\* two tasks both started and unsettled, and task k+1 has started only if
\* task k has settled.
C2_SerialInOrder ==
  /\ Cardinality({i \in TaskIds : Running(tasks[i])}) <= 1
  /\ \A k \in TaskIds : (k + 1 \in TaskIds /\ tasks[k + 1].pc # "queued") => Settled(tasks[k])

\* a task that was submitted while its predecessor was unsettled is running,
\* after the predecessor settled
C2_Witness ==
  \E k \in TaskIds : /\ k + 1 \in TaskIds
                     /\ tasks[k + 1].overlap
                     /\ Running(tasks[k + 1])
                     /\ Settled(tasks[k])

\* C7: a failing task does not block the queue: no task is passed over, a
\* queued task whose predecessors have all settled can start, and the promise
\* each caller holds settles with the outcome of that caller's own task.
C7_FailureIsolated ==
  \A j \in TaskIds :
    /\ tasks[j].pc # "skipped"
    /\ PromiseState(tasks, tasks[j].ret) = tasks[j].outcome
    /\ (tasks[j].pc = "queued" /\ \A i \in TaskIds : i < j => Settled(tasks[i]))
         => /\ PromiseState(tasks, tasks[j].pred) # "pending"
            /\ ThenHandlers[PromiseState(tasks, tasks[j].pred)]

\* a task rejected and a task submitted after it resolved
C7_Witness ==
  \E i \in TaskIds : \E j \in TaskIds :
    i < j /\ tasks[i].outcome = "rejected" /\ tasks[j].outcome = "fulfilled"

\* C8: a step of a save task changes the observable projects or notes only
\* when the task resolves, after its store writes succeeded, and then to that
\* task's snapshot; every step of a save that ends rejected leaves the
\* observable state as it was.
C8_SwapOnlyAfterWrite ==
  [][ \A i \in TaskIds :
        (i <= Len(tasks') /\ tasks'[i].pc # tasks[i].pc) =>
          IF tasks[i].outcome = "pending" /\ tasks'[i].outcome = "fulfilled"
          THEN IF tasks[i].kind = "saveProjects"
               THEN /\ projects' = tasks[i].projectsArg
                    /\ Get(store', K_PROJECTS) = StringifyProjects(tasks[i].projectsArg)
                    /\ notes' = notes
               ELSE /\ notes' = tasks[i].notesArg
                    /\ tasks[i].pc \in {"cleanup", "cleanupRemove", "cleanupMeta"}
                    /\ projects' = projects
          ELSE projects' = projects /\ notes' = notes ]_vars

\* a saveProjects was rejected and the observable projects are not its snapshot
C8_Witness ==
  \E i \in TaskIds : /\ tasks[i].kind = "saveProjects"
                     /\ tasks[i].outcome = "rejected"
                     /\ projects # tasks[i].projectsArg


\* the state right after an initializeStorage in which no read threw: the
\* store is the one that was loaded and nothing has written to it since
FreshlyLoaded == app = "ready" /\ loadOk /\ lastWrite.op = "none"

\* C3: a saveNotes whose document exceeds the chunk threshold resolves, the
\* app is restarted, and the load yields the collection that was saved.
C3_ChunkedRoundTrip ==
  ( /\ FreshlyLoaded
    /\ crashes > 0
    /\ crashInfo.clean
    /\ committed.valid
    /\ committed.chunked )
  => notes = committed.notes

\* C4: the process dies during a saveNotes after its staging write and before
\* its primary or chunk writes are complete; the next load returns the notes
\* of the last saveNotes that resolved.
C4_CrashKeepsCommitted ==
  ( /\ FreshlyLoaded
    /\ crashes > 0
    /\ crashInfo.window
    /\ committed.valid )
  => notes = committed.notes

\* C5: when saveNotes rejects, a load of the store returns what a load would
\* have returned before that save started.
C5_RejectLeavesStore ==
  \A i \in TaskIds :
    ( /\ tasks[i].kind = "saveNotes"
      /\ tasks[i].outcome = "rejected"
      /\ \A k \in TaskIds : k > i => tasks[k].pc = "queued" )
    => LoadNotes(store, TRUE, TRUE) = tasks[i].loadBefore

\* C6: every store write is made inside a task of the write queue, so no
\* write of another operation lands between the writes of a save in progress.
C6_WritesInsideQueue ==
  /\ lastWrite.op \in {"none", "task"}
  /\ \A i \in TaskIds :
       (tasks[i].kind = "saveNotes" /\ tasks[i].pc \in {"staged", "chunk", "rmPrimary", "commit"})
         => lastWrite = TaskWrite(i)

\* C9: on load, when the primary notes key is absent or unparseable and the
\* metadata key of the save path is present with all its chunks, the loaded
\* notes are the parse of the chunks joined in index order.
C9_ChunkFallback ==
  ( /\ FreshlyLoaded
    /\ (~Has(store, K_NOTES) \/ ~ParseOK(Get(store, K_NOTES)))
    /\ Has(store, K_NOTES_META)
    /\ \A c \in 0..(Get(store, K_NOTES_META).totalChunks - 1) : HasChunk(store, c)
    /\ ParseOK(loadNotesFromChunks(store)) )
  => notes = ParseNotes(loadNotesFromChunks(store))

\* C10: when a chunk with an index below the count of the metadata that the
\* chunked load reads is missing, the load yields no notes.
C10_MissingChunkAborts ==
  ( /\ FreshlyLoaded
    /\ Has(store, K_NOTES)
    /\ ~ParseOK(Get(store, K_NOTES))
    /\ Has(store, K_LEGACY_META)
    /\ \E c \in 0..(Get(store, K_LEGACY_META).totalChunks - 1) : ~HasChunk(store, c) )
  => notes = << >>

\* the positions of the string after which a chunk of cs ends
RECURSIVE Boundaries(_, _)
Boundaries(cs, at) ==
  IF cs = << >> THEN {}
  ELSE {at + Len(Head(cs))} \cup Boundaries(Tail(cs), at + Len(Head(cs)))

\* one character: one code unit, or a surrogate pair
SingleCharacter(c) ==
  \/ Len(c) = 1
  \/ c = <<HIGH_SURROGATE, LOW_SURROGATE>>

\* C15: joining the chunks a splitter returned, in order, gives back the
\* string that was split, for every string (the empty one included), every
\* byte limit above zero and each of the three splitters.
C15_JoinSplitIdentity ==
  /\ joined.done => joined.text = splitInput
  /\ joinChunks(splitByBytes(splitInput, splitLimit)) = splitInput
  /\ joinChunks(splitByBytesLegacy(splitInput, splitLimit)) = splitInput
  /\ joinChunks(splitStringByBytes(splitInput, splitLimit, precise)) = splitInput

\* a string was split into several chunks and joined again
C15_Witness ==
  /\ joined.done
  /\ Len(splitOutput) >= 2
  /\ joined.text = splitInput

\* C16: no chunk a splitter returned is longer than the byte limit once encoded,
\* except a chunk made of one character that is itself longer than the limit.
C16_ChunkWithinLimit ==
  \A k \in 1..Len(splitOutput) :
    \/ Utf8Bytes(splitOutput[k]) <= splitLimit
    \/ SingleCharacter(splitOutput[k])

\* a split produced a chunk of one oversized character next to a chunk of
\* several characters
C16_Witness ==
  /\ splitter # "none"
  /\ \E k \in 1..Len(splitOutput) : Len(splitOutput[k]) = 1 /\ Utf8Bytes(splitOutput[k]) > splitLimit
  /\ \E k \in 1..Len(splitOutput) : Len(splitOutput[k]) >= 2

\* C17: no chunk ends between the two code units of a surrogate pair.
C17_NoSplitInsideCharacter ==
  \A p \in 1..(Len(splitInput) - 1) :
    (splitter # "none" /\ splitInput[p] = HIGH_SURROGATE /\ splitInput[p + 1] = LOW_SURROGATE)
      => p \notin Boundaries(splitOutput, 0)

\* the stored value of a key could not be read or parsed by the last load
Unusable(key, read) ==
  \/ read \in loadFailed
  \/ ~Has(store, key)
  \/ ~JsonOK(Get(store, key))

\* neither the primary notes key nor the chunk fallback gave a collection
NotesUnusable ==
  \/ "NOTES" \in loadFailed
  \/ ~Has(store, K_NOTES)
  \/ /\ ~ParseOK(Get(store, K_NOTES))
     /\ \/ "CHUNKS" \in loadFailed
        \/ ~Has(store, K_LEGACY_META)
        \/ ~LegacyChunksParse(store, Get(store, K_LEGACY_META).totalChunks)

\* C12: initializeStorage always completes, whatever reads throw and whatever
\* is stored, with isLoading false and isInitialized true, and every
\* collection whose stored data could not be read or parsed is empty.
C12_LoadFailsSoft ==
  /\ isLoading => ENABLED InitializeStorage
  /\ ~isLoading =>
       /\ isInitialized
       /\ Unusable(K_PROJECTS, "PROJECTS") => projects = << >>
       /\ \A k \in FavKinds : Unusable(K_FAV(k), "FAV_" \o k) => favorites[k] = << >>
       /\ Unusable(K_HISTORY, "HISTORY") => quickCalcHistory = << >>
       /\ NotesUnusable => notes = << >>

\* a load finished in which the projects read threw on a well-formed
\* document, the history was unparseable, and the notes were loaded
C12_Witness ==
  /\ isInitialized
  /\ "PROJECTS" \in loadFailed
  /\ Has(store, K_PROJECTS) /\ JsonOK(Get(store, K_PROJECTS))
  /\ Has(store, K_HISTORY) /\ ~JsonOK(Get(store, K_HISTORY))
  /\ notes # << >>

\* the serialized collection is not over the threshold
UnderThreshold(ns) == Len(StringifyNotes(ns)) <= ChunkThreshold

\* a step adds or changes no chunk key and no metadata key
NoChunkOrMetaWritten ==
  /\ \A c \in DOMAIN store'.chunk : HasChunk(store, c) /\ GetChunk(store', c) = GetChunk(store, c)
  /\ Has(store', K_NOTES_META) =>
        Has(store, K_NOTES_META) /\ Get(store', K_NOTES_META) = Get(store, K_NOTES_META)

SavedNoteHolds(n, img) ==
  LET saved == sanitizeCall.dataString.json[n]
  IN /\ "images" \in DOMAIN saved
     /\ \E x \in 1..Len(saved.images) : saved.images[x] = img

\* C18: when the write of an inline image fails during the sanitize step of
\* saveNotes, the document is still produced, the image is in the serialized
\* note in its inline form, and every note of the collection is sanitized:
\* all notes are there in order and the images whose write did not fail are
\* external in every note.
C18_FailedImageStaysInline ==
  sanitizeCall.done =>
    /\ Len(sanitizeCall.dataString.json) = Len(sanitizeCall.notes)
    /\ \A n \in 1..Len(sanitizeCall.notes) :
         /\ sanitizeCall.sanitizedNotes[n].id = sanitizeCall.notes[n].id
         /\ \A i \in 1..Len(sanitizeCall.notes[n].images.list) :
              <<n, i>> \in sanitizeCall.failed
                => SavedNoteHolds(n, sanitizeCall.notes[n].images.list[i])
         /\ platformOS # "web" =>
              \A x \in 1..Len(sanitizeCall.sanitizedNotes[n].images.list) :
                sanitizeCall.sanitizedNotes[n].images.list[x].form = "inline"
                  => \E i \in 1..Len(sanitizeCall.notes[n].images.list) :
                       <<n, i>> \in sanitizeCall.failed

\* the indices of the images that persist keeps: external references and
\* inline images whose write succeeded
Kept(call) ==
  {i \in 1..Len(call.images.list) :
     \/ call.images.list[i].form = "file"
     \/ i \in WritesOf(platformOS, call.images) \ call.failed}

\* the k-th smallest element of a set of indices
KthOf(S, k) == CHOOSE i \in S : Cardinality({j \in S : j < i}) = k - 1

\* C19: persist completes for every list; an inline image whose write failed
\* is not in the result; the external references and the inline images whose
\* write succeeded are, in input order: an external reference unchanged, an
\* inline image as a reference to a new blob that holds its payload. (A string
\* that is neither of the two forms of an image is not in the result.)
C19_PersistDropsOnlyFailed ==
  persistCall.op = "persist" =>
    LET images == persistCall.images.list
        res == persistCall.result
    IN IF platformOS = "web" \/ images = << >>
       THEN res = (IF images = << >> THEN Undefined ELSE persistCall.images)
       ELSE /\ res.defined <=> Kept(persistCall) # {}
            /\ Len(res.list) = Cardinality(Kept(persistCall))
            /\ \A k \in 1..Len(res.list) :
                 LET i == KthOf(Kept(persistCall), k) IN
                 IF images[i].form = "file"
                 THEN res.list[k] = images[i]
                 ELSE /\ res.list[k].form = "file"
                      /\ res.list[k].id \notin DOMAIN persistCall.filesBefore
                      /\ res.list[k].id \in DOMAIN files
                      /\ files[res.list[k].id] = images[i].id
                      /\ \A k2 \in 1..Len(res.list) : k2 # k => res.list[k2] # res.list[k]

\* a persist in which one write failed and another image was kept
C19_Witness ==
  /\ persistCall.op = "persist"
  /\ platformOS = "ios"
  /\ persistCall.failed # {}
  /\ persistCall.result.defined
  /\ Len(persistCall.result.list) < Len(persistCall.images.list)

\* C20: persist on a list of external references returns the same references
\* and writes no blob; a second persist on the result of a first returns that
\* result and writes no blob.
C20_PersistIdempotent ==
  /\ ( /\ persistCall.op \in {"persist", "again"}
       /\ \A i \in 1..Len(persistCall.images.list) : persistCall.images.list[i].form = "file" )
     => /\ persistCall.result.list = persistCall.images.list
        /\ files = persistCall.filesBefore
  /\ persistCall.op = "again"
     => /\ persistCall.result = persistCall.images
        /\ files = persistCall.filesBefore

\* a second persist ran on two external references
C20_Witness ==
  /\ persistCall.op = "again"
  /\ platformOS = "ios"
  /\ Len(persistCall.images.list) >= 2
  /\ persistCall.result = persistCall.images

\* the entities of a tree, by kind
BuildingsIn(ps) ==
  UNION {{ps[i].buildings[j] : j \in 1..Len(ps[i].buildings)} : i \in 1..Len(ps)}
ZonesIn(ps) ==
  UNION {{b.functionalZones[k] : k \in 1..Len(b.functionalZones)} : b \in BuildingsIn(ps)}
ShuttersIn(ps) ==
  UNION {{z.shutters[x] : x \in 1..Len(z.shutters)} : z \in ZonesIn(ps)}
Elements(seq) == {seq[x] : x \in 1..Len(seq)}

\* a tree without its entities of one kind and below
Bare(ps, kind) ==
  [i \in 1..Len(ps) |-> [ps[i] EXCEPT !.buildings =
    IF kind = "building" THEN << >>
    ELSE [j \in 1..Len(ps[i].buildings) |-> [ps[i].buildings[j] EXCEPT !.functionalZones =
      IF kind = "zone" THEN << >>
      ELSE [k \in 1..Len(ps[i].buildings[j].functionalZones) |->
             [ps[i].buildings[j].functionalZones[k] EXCEPT !.shutters = << >>]]]]]]

EntitiesIn(ps, kind) ==
  CASE kind = "building" -> BuildingsIn(ps)
    [] kind = "zone" -> ZonesIn(ps)
    [] kind = "shutter" -> ShuttersIn(ps)

\* tree `after` is tree `before` without the entities of this kind whose id
\* is in S: those are gone, every other entity is there as it was
TreeWithout(after, before, kind, S) ==
  /\ EntitiesIn(after, kind) = {e \in EntitiesIn(before, kind) : e.id \notin S}
  /\ Bare(after, kind) = Bare(before, kind)

ListWithout(after, before, S) ==
  /\ Elements(after) = Elements(before) \ S
  /\ Len(after) = Cardinality(Elements(after))

BatchOps == {"deleteBuildings", "deleteZones", "deleteShuttersBatch", "deleteNotes"}
BatchKind(op) ==
  CASE op = "deleteBuildings" -> "building"
    [] op = "deleteZones" -> "zone"
    [] op = "deleteShuttersBatch" -> "shutter"
BatchFavorites(op) ==
  CASE op = "deleteBuildings" -> "BUILDINGS"
    [] op = "deleteZones" -> "ZONES"
    [] op = "deleteShuttersBatch" -> "SHUTTERS"
    [] op = "deleteNotes" -> "NOTES"

\* the last call was a batch delete, its promise has resolved to true and no
\* later save has started
BatchResolved ==
  /\ lastCall.op \in BatchOps
  /\ Returned(lastCall) = "value"
  /\ \A k \in 1..Len(tasks) : k > lastCall.task => tasks[k].pc = "queued"

\* the favorites after the last batch delete: the ids of S are gone from the
\* list of its kind, in memory and in the store, and the other lists are as
\* they were
FavoritesWithout(S) ==
  /\ ListWithout(favorites[BatchFavorites(lastCall.op)],
                 lastCall.before.favorites[BatchFavorites(lastCall.op)], S)
  /\ ListWithout(Get(store, K_FAV(BatchFavorites(lastCall.op))).json,
                 lastCall.before.favorites[BatchFavorites(lastCall.op)], S)
  /\ \A kind \in FavKinds \ {BatchFavorites(lastCall.op)} :
       favorites[kind] = lastCall.before.favorites[kind]

\* C13: a batch delete called with the id set S enqueues one save of the
\* collection, and once it has resolved the collection, in the store and in
\* memory, is the collection the caller saw without the entities whose id is
\* in S, every other entity as it was, and the favorites list of the kind is
\* the one the caller saw without the ids of S.
C13_BatchDeleteExact ==
  /\ [][ (lastCall'.n = lastCall.n + 1 /\ lastCall'.op \in BatchOps)
           => /\ Len(tasks') = Len(tasks) + 1
              /\ lastCall'.task = Len(tasks') ]_vars
  /\ [](BatchResolved =>
         /\ FavoritesWithout(lastCall.ids)
         /\ IF lastCall.op = "deleteNotes"
            THEN /\ ListWithout(notes, lastCall.before.notes, lastCall.ids)
                 /\ LoadNotes(store, TRUE, TRUE) = notes
            ELSE /\ TreeWithout(projects, lastCall.before.projects,
                                BatchKind(lastCall.op), lastCall.ids)
                 /\ StoredProjects = projects)

\* the same for the batch deletes whose document is written in one piece
C13_UnderThreshold ==
  (BatchResolved /\ (lastCall.op = "deleteNotes" => UnderThreshold(notes)))
    => /\ FavoritesWithout(lastCall.ids)
       /\ IF lastCall.op = "deleteNotes"
          THEN /\ ListWithout(notes, lastCall.before.notes, lastCall.ids)
               /\ LoadNotes(store, TRUE, TRUE) = notes
          ELSE /\ TreeWithout(projects, lastCall.before.projects,
                              BatchKind(lastCall.op), lastCall.ids)
               /\ StoredProjects = projects

\* the operations of C14 and the kind of the id each one looks up
SingleOps ==
  {"updateProject", "deleteProject", "createBuilding", "updateBuilding", "deleteBuilding",
   "updateFunctionalZone", "deleteFunctionalZone", "createShutter", "updateShutter",
   "deleteShutter", "updateNote", "deleteNote"}
LooksUp(op) ==
  CASE op \in {"updateProject", "deleteProject", "createBuilding"} -> "project"
    [] op \in {"updateBuilding", "deleteBuilding"} -> "building"
    [] op \in {"updateFunctionalZone", "deleteFunctionalZone", "createShutter"} -> "zone"
    [] op \in {"updateShutter", "deleteShutter"} -> "shutter"
    [] op \in {"updateNote", "deleteNote"} -> "note"

\* the ids of a kind in the current snapshot: projectsRef.current for the
\* tree, the notes state for the notes
IdsInSnapshot(kind) ==
  CASE kind = "project" -> {projectsRef[i].id : i \in 1..Len(projectsRef)}
    [] kind = "note" -> Elements(notes)
    [] OTHER -> {e.id : e \in EntitiesIn(projectsRef, kind)}

NotFoundValue(op) ==
  IF op \in {"deleteProject", "deleteBuilding", "deleteFunctionalZone", "deleteShutter",
             "deleteNote"}
  THEN "false" ELSE "null"

\* C14: an update or delete of a project, building, zone, shutter or note, or
\* a create of a building or a shutter, called with an id that the current
\* snapshot does not hold returns null (false for a delete), enqueues nothing
\* and changes neither the store nor the collections nor the favorites.
C14_NotFoundNoEffect ==
  [][ ( /\ lastCall'.n = lastCall.n + 1
        /\ lastCall'.op \in SingleOps
        /\ lastCall'.ids \cap IdsInSnapshot(LooksUp(lastCall'.op)) = {} )
      => /\ lastCall'.ret = NotFoundValue(lastCall'.op)
         /\ UNCHANGED << store, projects, projectsRef, notes, favorites, tasks,
                         saveQueueRef, failures >> ]_vars

\* updateBuilding returned null for a building that an earlier deleteBuilding
\* removed
C14_Witness ==
  /\ lastCall.op = "updateBuilding"
  /\ lastCall.ids = {"b1"}
  /\ lastCall.ret = "null"
  /\ Len(tasks) = 1
  /\ tasks[1].outcome = "fulfilled"

\* task i of the queue takes this step
StepOf(i) == i <= Len(tasks) /\ i <= Len(tasks') /\ tasks'[i] # tasks[i]

\* the chunk keys and the metadata key that save i wrote
WrittenChunkKeys(t) ==
  IF TakesChunkedPath(t.doc) THEN 0..(Len(t.chunks) - 1) ELSE {}

\* C29: when a saveNotes resolves, the chunk keys in the store are the
\* chunks 0..count-1 that this save wrote (none after a direct save), and
\* the metadata key is there exactly when the save took the chunked path.
C29_CleanupKeepsWritten ==
  [][ \A i \in TaskIds :
        ( /\ StepOf(i)
          /\ tasks[i].kind = "saveNotes"
          /\ tasks[i].outcome = "pending"
          /\ tasks'[i].outcome = "fulfilled" )
        => /\ ChunkKeysOf(store') = WrittenChunkKeys(tasks[i])
           /\ Has(store', K_NOTES_META) <=> TakesChunkedPath(tasks[i].doc) ]_vars

\* the keys of the collection: primary, metadata and chunks
CollectionKeys(st) ==
  [primary |-> IF Has(st, K_NOTES) THEN <<Get(st, K_NOTES)>> ELSE << >>,
   meta |-> IF Has(st, K_NOTES_META) THEN <<Get(st, K_NOTES_META)>> ELSE << >>,
   chunk |-> st.chunk]

\* every chunk of save t is in the store, under its index
AllChunksWritten(st, t) ==
  /\ Has(st, K_NOTES_META)
  /\ Get(st, K_NOTES_META).totalChunks = Len(t.chunks)
  /\ \A j \in 1..Len(t.chunks) : HasChunk(st, j - 1) /\ GetChunk(st, j - 1) = t.chunks[j]

\* C30: within one saveNotes, no primary, metadata or chunk key changes while
\* the staging key does not yet hold the document; chunk j is written after
\* the metadata and the chunks before it; the primary key is removed after
\* the last chunk; and the commit removes the staging key only when the
\* primary key holds the document, or the metadata and every chunk are
\* written and the primary key is removed.  (The catch block of a save that
\* failed removes the staging key too; that removal is not the commit.)
C30_SaveOrder ==
  [][ \A i \in TaskIds :
        (StepOf(i) /\ tasks[i].kind = "saveNotes") =>
          /\ tasks[i].pc \in {"queued", "run", "catch"}
               => CollectionKeys(store') = CollectionKeys(store)
          /\ (tasks[i].pc \in {"staged", "chunk", "rmPrimary"}
              /\ CollectionKeys(store') # CollectionKeys(store))
               => Has(store, K_NOTES_TMP) /\ Get(store, K_NOTES_TMP) = tasks[i].doc
          /\ (tasks[i].pc = "chunk" /\ store'.chunk # store.chunk)
               => /\ Has(store, K_NOTES_META)
                  /\ \A j \in 1..tasks[i].i :
                       HasChunk(store, j - 1) /\ GetChunk(store, j - 1) = tasks[i].chunks[j]
                  /\ store' = SetChunk(store, tasks[i].i, tasks[i].chunks[tasks[i].i + 1])
          /\ (TakesChunkedPath(tasks[i].doc) /\ Has(store, K_NOTES) /\ ~Has(store', K_NOTES))
               => AllChunksWritten(store, tasks[i])
          /\ (Has(store, K_NOTES_TMP) /\ ~Has(store', K_NOTES_TMP)
              /\ tasks'[i].outcome # "rejected")
               => IF TakesChunkedPath(tasks[i].doc)
                  THEN AllChunksWritten(store, tasks[i]) /\ ~Has(store, K_NOTES)
                  ELSE Has(store, K_NOTES) /\ Get(store, K_NOTES) = tasks[i].doc ]_vars

\* a chunked save of at least two chunks has committed
C30_Witness ==
  \E i \in TaskIds :
    /\ tasks[i].kind = "saveNotes"
    /\ tasks[i].pc = "cleanup"
    /\ Len(tasks[i].chunks) >= 2
    /\ ~Has(store, K_NOTES_TMP)
    /\ AllChunksWritten(store, tasks[i])

\* ------------------------------------------- favorites and history alone
\* the favorites lists handed to a setter
FavoriteInputs == {<< >>, <<"p1">>, <<"p2">>}

NextFavorites ==
  \/ InitializeStorage
  \/ \E kind \in FavKinds, favs \in FavoriteInputs : SetFavorite(kind, favs)

\* the favorites setters on fallible storage
SpecFavorites == InitWith(0, {BaseStore}, {TRUE}) /\ [][NextFavorites]_vars

\* C23: when the store write of a favorites setter fails, the favorites
\* state keeps its previous value (the setter never throws: SetFavorite has
\* no rejecting outcome)
C23_FailedFavoriteKeepsState ==
  [][ (directCalls' = directCalls + 1 /\ failures' = failures + 1)
        => favorites' = favorites ]_vars

\* the history calls that the provider makes
MaxHistoryCalls == 6
\* quickCalcHistory.slice(0, 5) of the module-level variant
HistoryCap == 5

NextHistory ==
  \/ InitializeStorage
  \/ AddHistoryWithin(MaxHistoryCalls)
  \/ \E itemId \in 1..now : RemoveHistoryWithin(MaxHistoryCalls, itemId)

SpecHistory == InitWith(0, {BaseStore}, {TRUE}) /\ [][NextHistory]_vars

\* C27: the quick-calc history never holds more than HistoryCap entries
C27_HistoryCapped == Len(quickCalcHistory) <= HistoryCap

\* ------------------------------------------------------ updatedAt of the parent
\* the operations that create, update or delete a building, a zone or a shutter
StructuralOps ==
  (SingleOps \ {"updateProject", "deleteProject", "updateNote", "deleteNote"})
    \cup (BatchOps \ {"deleteNotes"})
TargetKind(op) == IF op \in BatchOps THEN BatchKind(op) ELSE LooksUp(op)

\* the snapshot the operation computes its new tree from: the projects state
\* for a batch delete, projectsRef.current for the others
SourceTree(op) == IF op \in BatchOps THEN projects ELSE projectsRef

\* every project of tree src that holds an entity the call names is, in the
\* document the call hands to saveProjects, a project with a later updatedAt
ParentsAdvance(src, doc, kind, ids) ==
  \A i \in 1..Len(src) :
    (\E id \in ids : InProject(src[i], kind, id))
      => \E k \in 1..Len(doc) : doc[k].id = src[i].id /\ doc[k].updatedAt > src[i].updatedAt

\* C24: every create, update or delete of a building, zone or shutter that
\* saves, the batch deletions included, advances the updatedAt of the project
\* that holds the changed entity
C24_ParentUpdatedAtAdvances ==
  [][ ( lastCall'.n = lastCall.n + 1 /\ lastCall'.op \in StructuralOps /\ lastCall'.task # 0 )
        => ParentsAdvance(SourceTree(lastCall'.op), tasks'[lastCall'.task].projectsArg,
                          TargetKind(lastCall'.op), lastCall'.ids) ]_vars

\* ------------------------------------------------------------ importProject
\* the generateUniqueId() calls that the import of a zone, of the first k zones
\* of a list, of a building, of the first k buildings of a list, of a project makes
ZoneSize(z) == 1 + Len(z.shutters)
RECURSIVE ZonesSize(_, _)
ZonesSize(zs, k) == IF k = 0 THEN 0 ELSE ZonesSize(zs, k - 1) + ZoneSize(zs[k])
BuildingSize(b) == 1 + ZonesSize(b.functionalZones, Len(b.functionalZones))
RECURSIVE BuildingsSize(_, _)
BuildingsSize(bs, k) == IF k = 0 THEN 0 ELSE BuildingsSize(bs, k - 1) + BuildingSize(bs[k])
ProjectSize(p) == 1 + BuildingsSize(p.buildings, Len(p.buildings))

\* zone.shutters.map(shutter => ({...shutter, id, zoneId: newZoneId, ...})),
\* the zone's id being the n-th generated id
ImportZone(z, newBuildingId, n, t) ==
  [z EXCEPT !.id = UniqueId(n), !.buildingId = newBuildingId, !.createdAt = t,
            !.shutters = [s \in 1..Len(z.shutters) |->
               [z.shutters[s] EXCEPT !.id = UniqueId(n + s), !.zoneId = UniqueId(n),
                                     !.createdAt = t, !.updatedAt = t]]]

\* building.functionalZones.map(zone => ({...zone, id, buildingId: newBuildingId, ...}))
ImportBuilding(b, newProjectId, n, t) ==
  [b EXCEPT !.id = UniqueId(n), !.projectId = newProjectId, !.createdAt = t,
            !.functionalZones = [k \in 1..Len(b.functionalZones) |->
               ImportZone(b.functionalZones[k], UniqueId(n),
                          n + 1 + ZonesSize(b.functionalZones, k - 1), t)]]

\* importedProject: {...project, id: newProjectId, buildings: project.buildings.map(...)}
ImportedProject(p, n, t) ==
  [p EXCEPT !.id = UniqueId(n), !.createdAt = t, !.updatedAt = t,
            !.buildings = [j \in 1..Len(p.buildings) |->
               ImportBuilding(p.buildings[j], UniqueId(n),
                              n + 1 + BuildingsSize(p.buildings, j - 1), t)]]

\* Promise.all([saveProjects(newProjects), saveNotes(newNotes)]): two enqueue
\* calls in a row, the second chained on the tail the first one left
EnqueueBoth(newProjects, newNotes) ==
  LET first == NewTask("saveProjects", newProjects, << >>, NoUpdate)
      second == [NewTask("saveNotes", << >>, newNotes, NoUpdate) EXCEPT
                   !.overlap = TRUE,
                   !.pred = QueueTail(saveQueueRef, Len(tasks) + 1),
                   !.ret = EnqueueReturn(Len(tasks) + 2)]
  IN /\ tasks' = tasks \o << first, second >>
     /\ saveQueueRef' = QueueTail(QueueTail(saveQueueRef, Len(tasks) + 1), Len(tasks) + 2)

\* importProject(project, relatedNotes) with notes that have no images
ImportProject(project, relatedNotes) ==
  /\ app = "ready"
  /\ lastCall.n < MaxCalls
  /\ Len(tasks) + 2 <= MaxTasks
  /\ nextId <= MaxNoteId
  /\ EnqueueBoth(Append(projectsRef, ImportedProject(project, nextId, now)),
                 notes \o relatedNotes)
  /\ Called("importProject", {project.id}, "pending", Len(tasks) + 2)
  /\ nextId' = nextId + ProjectSize(project)
  /\ now' = now + 1
  /\ UNCHANGED << store, projects, notes, favorites, failures, lastWrite, callFrame >>

\* {...entity, ...updates}
Spread(entity, updates) == updates @@ entity

\* updateBuilding: the building replaced by {...building, ...updates}, the
\* project's updatedAt bumped
UpdateBuildingTree(ps, id, updates, t) ==
  LET i == IndexOf(ps, "building", id)
      j == BuildingIndex(ps[i], "building", id)
  IN ReplaceProject(ps, i, ReplaceBuilding(ps[i], j, Spread(ps[i].buildings[j], updates), t))

\* updateBuilding(buildingId, updates) with updates that carry fields
UpdateBuildingWith(id, updates) ==
  /\ app = "ready"
  /\ lastCall.n < MaxCalls
  /\ IF ~Found(projectsRef, "building", id)
     THEN NotFound("updateBuilding", id, "null")
     ELSE /\ Len(tasks) < MaxTasks
          /\ SavesProjects("updateBuilding", id, UpdateBuildingTree(projectsRef, id, updates, now))
          /\ UNCHANGED << store, favorites, nextId, failures, lastWrite >>

\* updateNote(id, updates) with updates that carry fields, images apart: a
\* note is its id, so {...currentNote, ...updates} is updates.id when the
\* updates carry one
UpdatedNote(currentNote, updates) ==
  IF "id" \in DOMAIN updates THEN updates.id ELSE currentNote
UpdateNoteWith(id, updates) ==
  /\ app = "ready"
  /\ lastCall.n < MaxCalls
  /\ IF ~NoteFound(notes, id)
     THEN NotFound("updateNote", id, "null")
     ELSE /\ Len(tasks) < MaxTasks
          /\ Enqueue("saveNotes", << >>,
                     [notes EXCEPT ![FirstIndex({x \in 1..Len(notes) : notes[x] = id})] =
                        UpdatedNote(notes[FirstIndex({x \in 1..Len(notes) : notes[x] = id})], updates)],
                     NoUpdate)
          /\ Called("updateNote", {id}, "pending", Len(tasks) + 1)
          /\ now' = now + 1
          /\ UNCHANGED << store, projects, notes, favorites, nextId, failures, lastWrite,
                          callFrame >>

\* an export of another installation, its back-references as that
\* installation left them
ForeignProject ==
  [id |-> "p1", createdAt |-> 0, updatedAt |-> 0,
   buildings |-> << [id |-> "b1", projectId |-> "p7", createdAt |-> 0,
     functionalZones |-> << [id |-> "z1", buildingId |-> "b7", createdAt |-> 0,
       shutters |-> << Shutter("s1", "z7") >> ] >> ] >> ]

ImportInputs == {RepoProjects[1], ForeignProject}
RelatedNotesInputs == {<< >>, <<0>>, <<7>>}
BuildingUpdates == {<< >>, [projectId |-> "p2"]}
NoteUpdates == {<< >>, [id |-> 7]}

\* imports and field-carrying updates on the stored session; no storage call
\* throws
NextImport ==
  \/ InitializeStorage
  \/ ProjectsEffect
  \/ \E project \in ImportInputs, relatedNotes \in RelatedNotesInputs :
       ImportProject(project, relatedNotes)
  \/ \E id \in CallIds.building, updates \in BuildingUpdates : UpdateBuildingWith(id, updates)
  \/ \E id \in CallIds.note, updates \in NoteUpdates : UpdateNoteWith(id, updates)
  \/ CreateNote
  \/ TaskSteps
  \/ \E i \in 1..MaxTasks : SaveProjectsWrite(i)

SpecImport == InitWith(MaxFailures, {RepoStore}, {TRUE}) /\ [][NextImport]_vars

\* the entities of a kind in tree ps, one entry per occurrence
RECURSIVE Concat(_, _)
Concat(seqs, k) == IF k = 0 THEN << >> ELSE Concat(seqs, k - 1) \o seqs[k]
BuildingList(ps) == Concat([i \in 1..Len(ps) |-> ps[i].buildings], Len(ps))
ZoneList(ps) ==
  Concat([j \in 1..Len(BuildingList(ps)) |-> BuildingList(ps)[j].functionalZones],
         Len(BuildingList(ps)))
ShutterList(ps) ==
  Concat([k \in 1..Len(ZoneList(ps)) |-> ZoneList(ps)[k].shutters], Len(ZoneList(ps)))

DistinctIds(seq) == \A i \in 1..Len(seq) : \A j \in 1..Len(seq) : seq[i].id = seq[j].id => i = j
DistinctNotes(ns) == \A i \in 1..Len(ns) : \A j \in 1..Len(ns) : ns[i] = ns[j] => i = j

\* C25: no two projects, no two buildings, no two zones, no two shutters and
\* no two notes of the observable collections have the same id
C25_IdsUnique ==
  /\ DistinctIds(projects)
  /\ DistinctIds(BuildingList(projects))
  /\ DistinctIds(ZoneList(projects))
  /\ DistinctIds(ShutterList(projects))
  /\ DistinctNotes(notes)

\* C26: in the observable tree every building's projectId is the id of the
\* project that holds it, every zone's buildingId the id of its building,
\* every shutter's zoneId the id of its zone
C26_BackReferences ==
  \A i \in 1..Len(projects) :
    \A j \in 1..Len(projects[i].buildings) :
      LET b == projects[i].buildings[j] IN
      /\ b.projectId = projects[i].id
      /\ \A k \in 1..Len(b.functionalZones) :
           LET z == b.functionalZones[k] IN
           /\ z.buildingId = b.id
           /\ \A s \in 1..Len(z.shutters) : z.shutters[s].zoneId = z.id

\* ------------------------------------------------------------ searchShutters
\* text is a sequence of code units: SPACE, the lower-case letters 1..UPPER-1
\* and, UPPER above each, its upper-case letter
SPACE == 0
UPPER == 10

\* String.prototype.toLowerCase
LowerChar(c) == IF c > UPPER THEN c - UPPER ELSE c
toLowerCase(s) == [x \in 1..Len(s) |-> LowerChar(s[x])]

\* trim().split(/\s+/).filter(word => word.length > 0): the maximal runs of
\* non-space code units, in order
RECURSIVE SplitWords(_, _, _, _)
SplitWords(s, x, word, words) ==
  IF x > Len(s) THEN (IF word = << >> THEN words ELSE Append(words, word))
  ELSE IF s[x] = SPACE
       THEN SplitWords(s, x + 1, << >>, IF word = << >> THEN words ELSE Append(words, word))
       ELSE SplitWords(s, x + 1, Append(word, s[x]), words)
queryWords(query) == SplitWords(toLowerCase(query), 1, << >>, << >>)

\* Array.prototype.join('') and join(' ')
RECURSIVE JoinNoSeparator(_, _)
JoinNoSeparator(parts, k) ==
  IF k = 0 THEN << >> ELSE JoinNoSeparator(parts, k - 1) \o parts[k]
RECURSIVE JoinSpace(_, _)
JoinSpace(parts, k) ==
  IF k = 0 THEN << >>
  ELSE IF k = 1 THEN parts[1]
  ELSE JoinSpace(parts, k - 1) \o <<SPACE>> \o parts[k]

\* value || ''
OrEmpty(rec, field) == IF field \in DOMAIN rec THEN rec[field] ELSE << >>

SearchFields(shutter, zone, building, project) ==
  << shutter.name, zone.name, building.name, project.name,
     OrEmpty(project, "city"), OrEmpty(shutter, "remarks") >>

\* the fields joined without a separator
searchableTextNoSeparator(shutter, zone, building, project) ==
  toLowerCase(JoinNoSeparator(SearchFields(shutter, zone, building, project), 6))

\* [shutter.name, ..., shutter.remarks || ''].join(' ').toLowerCase()
searchableText(shutter, zone, building, project) ==
  toLowerCase(JoinSpace(SearchFields(shutter, zone, building, project), 6))

\* String.prototype.includes
Includes(text, word) ==
  \E x \in 0..(Len(text) - Len(word)) : SubSeq(text, x + 1, x + Len(word)) = word

\* queryWords.every(word => searchableText.includes(word))
matchesAllWords(words, text) == \A w \in 1..Len(words) : Includes(text, words[w])

\* the results the loops over one zone, one building, one project, the list push
ZoneResults(words, zone, building, project) ==
  LET hit(s) == matchesAllWords(words, searchableText(zone.shutters[s], zone, building, project))
      one(s) == IF hit(s)
                THEN << [shutter |-> zone.shutters[s], zone |-> zone, building |-> building,
                         project |-> project] >>
                ELSE << >>
  IN Concat([s \in 1..Len(zone.shutters) |-> one(s)], Len(zone.shutters))
BuildingResults(words, building, project) ==
  Concat([k \in 1..Len(building.functionalZones) |->
            ZoneResults(words, building.functionalZones[k], building, project)],
         Len(building.functionalZones))
ProjectResults(words, project) ==
  Concat([j \in 1..Len(project.buildings) |->
            BuildingResults(words, project.buildings[j], project)],
         Len(project.buildings))
searchShutters(ps, query) ==
  Concat([i \in 1..Len(ps) |-> ProjectResults(queryWords(query), ps[i])], Len(ps))

\* the searches made
MaxSearches == 1

\* searchShutters(query): reads projectsRef.current, changes nothing
SearchShutters(query) ==
  /\ app = "ready"
  /\ lastCall.n < MaxSearches
  /\ lastCall' = [n |-> lastCall.n + 1, op |-> "searchShutters", ids |-> {},
                  ret |-> searchShutters(projectsRef, query), task |-> 0,
                  before |-> Snapshot, query |-> query]
  /\ UNCHANGED << store, precise, app, projects, projectsRef, notes, favorites,
                  quickCalcHistory, tasks, saveQueueRef, clear, now, nextId, countVars,
                  lastWrite, committed, crashInfo, loadOk, chunkVars, loadFailed, imageVars >>

\* no value: the field is undefined
Absent == << 0 - 1 >>
OptionalField(field, value) == IF value = Absent THEN << >> ELSE (field :> value)

\* two projects; the second one is fixed, the fields of the first one and of
\* its first shutter vary
SearchTree(sn, zn, bn, pn, city, remarks) ==
  << [id |-> "p1", name |-> pn, buildings |-> <<
        [id |-> "b1", name |-> bn, functionalZones |-> <<
           [id |-> "z1", name |-> zn, shutters |-> <<
              [id |-> "s1", name |-> sn] @@ OptionalField("remarks", remarks),
              [id |-> "s2", name |-> <<2>>] >> ] >> ] >> ]
       @@ OptionalField("city", city),
     [id |-> "p2", name |-> <<1>>, buildings |-> <<
        [id |-> "b2", name |-> <<12>>, functionalZones |-> <<
           [id |-> "z2", name |-> <<1, SPACE, 2>>, shutters |-> <<
              [id |-> "s3", name |-> <<11>>] >> ] >> ] >> ] >>

SearchTrees ==
  { SearchTree(sn, zn, bn, pn, city, remarks) :
      sn \in {<<1>>, <<11, 2>>}, zn \in {<<2>>, <<1, SPACE, 2>>}, bn \in {<<1>>, <<12>>},
      pn \in {<<2>>, <<2, 1>>}, city \in {Absent, <<11>>}, remarks \in {Absent, <<2, 2>>} }

MaxQuery == 3
Queries == UNION { [1..n -> {SPACE, 1, 2, 11}] : n \in 0..MaxQuery }

\* a ready provider whose projects are one of the trees
InitSearch ==
  /\ store = [kv |-> << >>, chunk |-> << >>]
  /\ precise = TRUE
  /\ app = "ready"
  /\ projects \in SearchTrees
  /\ projectsRef = projects
  /\ notes = << >>
  /\ favorites = NoFavorites
  /\ quickCalcHistory = << >>
  /\ tasks = << >>
  /\ saveQueueRef = ResolvedPromise
  /\ clear = [pc |-> "idle", chunkKeys |-> {}]
  /\ now = 1
  /\ nextId = 1
  /\ failures = 0
  /\ crashes = 0
  /\ directCalls = 0
  /\ clears = 0
  /\ lastWrite = [op |-> "none", task |-> 0]
  /\ committed = NothingCommitted
  /\ crashInfo = [window |-> FALSE, clean |-> FALSE]
  /\ loadOk = TRUE
  /\ loadFailed = {}
  /\ ChunkerIdle
  /\ ImagesIdle({"web"})
  /\ lastCall = NoCall

NextSearch == \E query \in Queries : SearchShutters(query)

SpecSearch == InitSearch /\ [][NextSearch]_vars

\* the tokens of a query: its maximal substrings without a space
IsToken(q, a, b) ==
  /\ a <= b
  /\ \A x \in a..b : q[x] # SPACE
  /\ a = 1 \/ q[a - 1] = SPACE
  /\ b = Len(q) \/ q[b + 1] = SPACE
TokensOf(q) ==
  { SubSeq(q, ab[1], ab[2]) :
      ab \in {cd \in (1..Len(q)) \X (1..Len(q)) : IsToken(q, cd[1], cd[2])} }

\* the token occurs in the field, letters compared without their case
OccursIn(token, field) ==
  \E x \in 0..(Len(field) - Len(token)) :
    \A y \in 1..Len(token) : LowerChar(field[x + y]) = LowerChar(token[y])

\* every shutter of the tree with its owners
Owned(ps) ==
  UNION { UNION { UNION { { [shutter |-> ps[i].buildings[j].functionalZones[k].shutters[s],
                             zone |-> ps[i].buildings[j].functionalZones[k],
                             building |-> ps[i].buildings[j],
                             project |-> ps[i]] :
                            s \in 1..Len(ps[i].buildings[j].functionalZones[k].shutters) } :
                        k \in 1..Len(ps[i].buildings[j].functionalZones) } :
                j \in 1..Len(ps[i].buildings) } :
          i \in 1..Len(ps) }

MatchesQuery(r, q) ==
  \A t \in TokensOf(q) :
    \E f \in 1..6 : OccursIn(t, SearchFields(r.shutter, r.zone, r.building, r.project)[f])

\* C28: searchShutters(q) returns, once each and with its zone, building and
\* project, exactly the shutters for which every whitespace-separated token
\* of q occurs, letter case apart, in one of the six fields shutter name, zone
\* name, building name, project name, project city, shutter remarks
C28_SearchExact ==
  lastCall.op = "searchShutters"
    => /\ Elements(lastCall.ret) = {r \in Owned(projectsRef) : MatchesQuery(r, lastCall.query)}
       /\ Len(lastCall.ret) = Cardinality(Elements(lastCall.ret))

\* a query of two tokens, one in upper case, with spaces around, that selects
\* some shutters and leaves others out
C28_Witness ==
  /\ lastCall.op = "searchShutters"
  /\ Cardinality(TokensOf(lastCall.query)) = 2
  /\ \E x \in 1..Len(lastCall.query) : lastCall.query[x] > UPPER
  /\ lastCall.ret # << >>
  /\ Len(lastCall.ret) < Cardinality(Owned(projectsRef))

\* ------------------------------------------------------ cleanupOrphanImages
\* allNoteImages.filter(uri => uri.startsWith('file://')).map(uri =>
\* uri.split('/').pop()): the file names the references name
referencedFiles(allNoteImages) ==
  {allNoteImages[x].id : x \in {y \in 1..Len(allNoteImages) : allNoteImages[y].form = "file"}}

\* the loop that deletes every listed file referencedFiles does not hold
DeleteAllListed(fs, referenced, failed) == << >>

\* the loop that deletes the listed files referencedFiles does not hold;
\* failed: the files whose deleteAsync throws
DeleteUnreferenced(fs, referenced, failed) ==
  [f \in {g \in DOMAIN fs : g \in referenced \/ g \in failed} |-> fs[f]]

\* cleanupOrphanImages(allNoteImages): the images directory afterwards;
\* listOk: getInfoAsync and readDirectoryAsync do not throw
cleanupOrphanImages(os, allNoteImages, listOk, failed, fs) ==
  IF os = "web" THEN fs
  ELSE IF ~listOk \/ DOMAIN fs = {} THEN fs
  ELSE DeleteUnreferenced(fs, referencedFiles(allNoteImages), failed)

\* the blobs an images directory may hold
MaxBlobs == 3
BlobNames == 1..MaxBlobs
Directories(os) ==
  IF os = "web" THEN {<< >>} ELSE UNION {[S -> {1}] : S \in SUBSET BlobNames}
ReferenceLists == ListsUpTo({FileRef(n) : n \in BlobNames} \cup {Inline(1)}, MaxImages)
NoEarlierRun == [ran |-> FALSE, failed |-> {}, threw |-> FALSE]

\* the deletions a run on these references attempts
DeletesOf(os, allNoteImages, fs) ==
  IF os = "web" THEN {} ELSE (DOMAIN fs) \ referencedFiles(allNoteImages)

\* one run of cleanupOrphanImages, recorded with the run before it
CleanupRun(op, allNoteImages, earlier) ==
  \E listOk \in BOOLEAN : \E failed \in SUBSET DeletesOf(platformOS, allNoteImages, files) :
    /\ files' = cleanupOrphanImages(platformOS, allNoteImages, listOk, failed, files)
    /\ persistCall' = [op |-> op, images |-> Defined(allNoteImages),
                       failed |-> IF listOk THEN failed ELSE {},
                       result |-> Undefined, filesBefore |-> files,
                       threw |-> ~listOk /\ platformOS # "web", earlier |-> earlier]
    /\ UNCHANGED << imageFrame, sanitizeCall, nextFile >>

\* cleanupOrphanImages(allNoteImages)
CleanupOrphanImages ==
  /\ persistCall.op = "none"
  /\ \E allNoteImages \in ReferenceLists : CleanupRun("cleanup", allNoteImages, NoEarlierRun)

\* cleanupOrphanImages called again with the same references
CleanupAgain ==
  /\ persistCall.op = "cleanup"
  /\ CleanupRun("cleanupAgain", persistCall.images.list,
                [ran |-> TRUE, failed |-> persistCall.failed, threw |-> persistCall.threw])

InitCleanup ==
  /\ ProviderInit(0, {BaseStore}, {TRUE})
  /\ ChunkerIdle
  /\ platformOS \in {"web", "ios"}
  /\ files \in Directories(platformOS)
  /\ nextFile = MaxBlobs + 1
  /\ persistCall = NoPersistCall
  /\ sanitizeCall = NoSanitizeCall
  /\ lastCall = NoCall

NextCleanup ==
  \/ CleanupOrphanImages
  \/ CleanupAgain

SpecCleanup == InitCleanup /\ [][NextCleanup]_vars

IsCleanup == persistCall.op \in {"cleanup", "cleanupAgain"}

\* the directory holds exactly the blobs it held before the run that the
\* references of the run name, each with its payload
OnlyReferencedLeft ==
  /\ DOMAIN files = (DOMAIN persistCall.filesBefore) \cap referencedFiles(persistCall.images.list)
  /\ \A f \in DOMAIN files : files[f] = persistCall.filesBefore[f]

removeImages(os, uris, fs) ==
  IF ~uris.defined \/ uris.list = << >> \/ os = "web" THEN fs
  ELSE [f \in (DOMAIN fs) \ referencedFiles(uris.list) |-> fs[f]]

\* saveNotes(newNotes) of a document under the threshold, awaited, no call
\* throwing: the sanitize pass, the write of the document, setNotes; st is
\* the store as the handler's earlier writes left it
SavesNoteRecords(st, newNotes, fs, next) ==
  LET r == sanitizeNotesImagesOn(platformOS, newNotes, {}, fs, next) IN
  /\ store' = SetItem(st, K_NOTES, StringifyNoteRecords(r.out))
  /\ notes' = r.out
  /\ files' = r.files
  /\ nextFile' = r.next
  /\ lastWrite' = [op |-> "saveNotes", task |-> 0]

\* saveNotes(newNotes) awaited, its write-ahead setItem throwing after the
\* sanitize pass: the catch removes the staging key and rethrows, the
\* document and the state stay
SaveNoteRecordsFails(st, newNotes, fs, next) ==
  LET r == sanitizeNotesImagesOn(platformOS, newNotes, {}, fs, next) IN
  /\ store' = st
  /\ notes' = notes
  /\ files' = r.files
  /\ nextFile' = r.next
  /\ lastWrite' = lastWrite

\* the save of a handler, returning (ok) or throwing
SaveOutcome(ok, st, newNotes, fs, next) ==
  IF ok THEN SavesNoteRecords(st, newNotes, fs, next)
  ELSE SaveNoteRecordsFails(st, newNotes, fs, next)

noteFrame == << precise, app, projects, projectsRef, quickCalcHistory, tasks, saveQueueRef,
                clear, failures, crashes, directCalls, clears, committed, crashInfo, loadOk,
                chunkVars, loadFailed, platformOS, persistCall, sanitizeCall >>

\* the calls of the note operations made
MaxNoteCalls == 3

NoteCallReturning(op, ids, ret) ==
  /\ app = "ready"
  /\ lastCall.n < MaxNoteCalls
  /\ Called(op, ids, ret, 0)
  /\ now' = now + 1
  /\ UNCHANGED noteFrame

NoteCall(op, ids) == NoteCallReturning(op, ids, "value")

HasNote(id) == \E x \in 1..Len(notes) : notes[x].id = id
NoteIndex(id) == FirstIndex({x \in 1..Len(notes) : notes[x].id = id})

\* the images a caller hands to createNote, and to updateNote for a note
\* with these images: none, the empty list, the same list, one more, another
NewImageLists == {Undefined} \cup {Defined(l) : l \in ListsUpTo({Inline(1), Inline(2)}, MaxImages)}
ImageChanges == {"none", "empty", "same", "one more", "another"}
UpdatedImages(note, change) ==
  CASE change = "none" -> Undefined
    [] change = "empty" -> Defined(<< >>)
    [] change = "same" -> note.images
    [] change = "one more" ->
         IF note.images.defined
         THEN Defined(<<note.images.list[1], Inline(1)>>) ELSE Defined(<<Inline(1)>>)
    [] change = "another" -> Defined(<<Inline(2)>>)

\* createNote(noteData): persistImagesIfNeeded(noteData.images), [newNote, ...notes]
CreateNoteWithImages(images) ==
  LET r == persistImagesIfNeeded(platformOS, images, {}, files, nextFile)
      newNote == [id |-> nextId, images |-> r.result]
  IN /\ NoteCall("createNote", {nextId})
     /\ SavesNoteRecords(store, <<newNote>> \o notes, r.files, r.next)
     /\ nextId' = nextId + 1
     /\ UNCHANGED favorites

\* updateNote(id, updates) on a note of the list: when updates.images is
\* set, persist it and remove the old images that the result does not hold;
\* updatedNote = {...currentNote, ...updates, images: finalImages}
UpdateNoteOutcome(id, change, ok) ==
  LET currentNote == notes[NoteIndex(id)]
      images == UpdatedImages(currentNote, change)
      r == IF images.defined
           THEN persistImagesIfNeeded(platformOS, images, {}, files, nextFile)
           ELSE [result |-> images, files |-> files, next |-> nextFile]
      finalImages == r.result
      oldImages == SelectSeq(currentNote.images.list,
                             LAMBDA img : ~(finalImages.defined /\ img \in Elements(finalImages.list)))
      fs == IF images.defined /\ currentNote.images.defined /\ Len(oldImages) > 0
            THEN removeImages(platformOS, Defined(oldImages), r.files)
            ELSE r.files
  IN /\ HasNote(id)
     /\ NoteCallReturning("updateNote", {id}, IF ok THEN "value" ELSE "throws")
     /\ SaveOutcome(ok, store, [notes EXCEPT ![NoteIndex(id)] = [currentNote EXCEPT !.images = finalImages]],
                    fs, r.next)
     /\ UNCHANGED << favorites, nextId >>

UpdateNoteImages(id, change) == UpdateNoteOutcome(id, change, TRUE)

\* deleteNote(id) on a note of the list: removeImages(noteToDelete.images),
\* setFavoriteNotes(filtered), saveNotes(newNotes); the catch returns false
DeleteNoteOutcome(id, ok) ==
  LET noteToDelete == notes[NoteIndex(id)]
      newFavoriteNotes == KeepIds(favorites["NOTES"], {id})
  IN /\ HasNote(id)
     /\ NoteCallReturning("deleteNote", {id}, IF ok THEN "value" ELSE "false")
     /\ favorites' = [favorites EXCEPT !["NOTES"] = newFavoriteNotes]
     /\ SaveOutcome(ok, SetItem(store, K_FAV("NOTES"), [json |-> newFavoriteNotes]),
                    Keep(notes, {id}),
                    removeImages(platformOS, noteToDelete.images, files), nextFile)
     /\ UNCHANGED nextId

DeleteNoteWithImages(id) == DeleteNoteOutcome(id, TRUE)

\* allImagesToRemove.push(...note.images) over the notes to delete
RECURSIVE AllImagesOf(_, _)
AllImagesOf(ns, k) ==
  IF k = 0 THEN << >>
  ELSE AllImagesOf(ns, k - 1) \o (IF ns[k].images.defined THEN ns[k].images.list ELSE << >>)

\* deleteNotes(ids): removeImages of the images of the notes to delete,
\* setFavoriteNotes(filtered), saveNotes(newNotes); the catch returns false
DeleteNotesOutcome(ids, ok) ==
  LET notesToDelete == SelectSeq(notes, LAMBDA n : n.id \in ids)
      allImagesToRemove == AllImagesOf(notesToDelete, Len(notesToDelete))
      newFavoriteNotes == KeepIds(favorites["NOTES"], ids)
  IN /\ \A id \in ids : HasNote(id)
     /\ NoteCallReturning("deleteNotes", ids, IF ok THEN "value" ELSE "false")
     /\ favorites' = [favorites EXCEPT !["NOTES"] = newFavoriteNotes]
     /\ SaveOutcome(ok, SetItem(store, K_FAV("NOTES"), [json |-> newFavoriteNotes]),
                    Keep(notes, ids),
                    removeImages(platformOS, Defined(allImagesToRemove), files), nextFile)
     /\ UNCHANGED nextId

DeleteNotesWithImages(ids) == DeleteNotesOutcome(ids, TRUE)

\* the ids and file names the calls can generate
NoteIdRange == 1..MaxNoteCalls
BlobRange == 1..(MaxNoteCalls * MaxImages)

\* a mobile provider with an empty images directory and no note
InitNoteImages ==
  /\ ProviderInit(MaxFailures, {BaseStore}, {TRUE})
  /\ ChunkerIdle
  /\ platformOS = "ios"
  /\ files = << >>
  /\ nextFile = 1
  /\ persistCall = NoPersistCall
  /\ sanitizeCall = NoSanitizeCall
  /\ lastCall = NoCall

NextNoteImages ==
  \/ InitializeStorage
  \/ \E images \in NewImageLists : CreateNoteWithImages(images)
  \/ \E id \in NoteIdRange, change \in ImageChanges : UpdateNoteImages(id, change)
  \/ \E id \in NoteIdRange : DeleteNoteWithImages(id)
  \/ \E ids \in (SUBSET NoteIdRange) \ {{}} : DeleteNotesWithImages(ids)

\* the note operations, each awaited before the next, no call throwing
SpecNoteImages == InitNoteImages /\ [][NextNoteImages]_vars

\* the same with every behaviour running as long as a call is left to make;
\* the storage layer itself schedules nothing: cleanupOrphanImages is imported
\* and never called
SpecNoteImagesFair == SpecNoteImages /\ WF_vars(NextNoteImages)

\* the blob is named by a file:// image of some note
ReferencedBlob(f) ==
  \E x \in 1..Len(notes) :
    notes[x].images.defined /\ FileRef(f) \in Elements(notes[x].images.list)
IsOrphan(f) == f \in DOMAIN files /\ ~ReferencedBlob(f)

\* C22: every blob that no note references is eventually deleted
C22_OrphansEventuallyDeleted ==
  \A f \in BlobRange : IsOrphan(f) ~> (f \notin DOMAIN files)

\* no step of the note operations deletes a blob that no note references:
\* once orphaned, a blob stays whatever is called afterwards
OrphansStay ==
  [][ \A f \in BlobRange : IsOrphan(f) => f \in DOMAIN files' ]_vars

\* ---------------------------------------------- the size branch of saveNotes
\* the step of saveNotes after the write-ahead: the direct write of the
\* primary key, or the metadata write of the chunked path
BranchStep(i) ==
  /\ i \in 1..Len(tasks)
  /\ tasks[i].kind = "saveNotes"
  /\ tasks[i].pc = "staged"
  /\ tasks'[i].pc \in {"commit", "chunk"}

\* C31: saveNotes writes the document directly under the primary key exactly
\* when its encoded byte size is below the threshold and takes the chunked
\* path otherwise, also for a document of exactly the threshold in bytes and
\* for one with fewer characters than the threshold but not fewer bytes
C31_BranchOnEncodedBytes ==
  [][ \A i \in 1..Len(tasks) :
        BranchStep(i) =>
          (tasks'[i].pc = "commit" <=> Utf8Bytes(tasks[i].doc) < ChunkThreshold) ]_vars

\* ------------------------------------- updateNote without an images field
\* C32: updateNote on an existing note with updates that have no images
\* field leaves the images of the note unchanged, in the persisted document
\* and in the observable list, and deletes no blob
C32_NoImagesFieldKeepsImages ==
  [][ \A id \in NoteIdRange :
        UpdateNoteImages(id, "none") =>
          /\ notes'[NoteIndex(id)].images = notes[NoteIndex(id)].images
          /\ store'.kv[K_NOTES] = StringifyNoteRecords(notes')
          /\ DOMAIN files \subseteq DOMAIN files' ]_vars

\* --------------------------------------- clearAllData and the pending saves
\* createNote called before clearAllData is: every task of the queue is
\* enqueued before the clear starts
CreateNoteBeforeClear ==
  /\ clears = 0
  /\ CreateNote

NextClear ==
  \/ InitializeStorage
  \/ CreateNoteBeforeClear
  \/ TaskSteps
  \/ ClearAllData
  \/ ClearCleanupKeys
  \/ ClearCleanupRemove
  \/ ClearCleanupMeta

\* the note saves of the queue and one clearAllData, called at any moment of
\* the saves; nothing is called once clearAllData is, no storage call throws
SpecClear == InitWith(MaxFailures, {DirectStore}, {TRUE}) /\ [][NextClear]_vars

\* clearAllData has resolved and every task of the queue has settled
ClearedAndSettled ==
  /\ clears > 0
  /\ clear.pc = "idle"
  /\ \A i \in TaskIds : Settled(tasks[i])

\* C33: once clearAllData has resolved and every task enqueued before has
\* settled, the store holds no projects, notes, favorites, history, staging,
\* metadata or chunk key and every observable collection is empty, also when
\* a save was pending or running when clearAllData was called
C33_ClearIsFinal ==
  ClearedAndSettled =>
    /\ \A k \in ClearedKeys : ~Has(store, k)
    /\ ChunkKeysOf(store) = {}
    /\ projects = << >> /\ notes = << >>
    /\ favorites = NoFavorites /\ quickCalcHistory = << >>

\* ------------------------------------------- note operations, failing saves
NextNoteSaves ==
  \/ InitializeStorage
  \/ \E images \in NewImageLists : CreateNoteWithImages(images)
  \/ \E id \in NoteIdRange, change \in ImageChanges, ok \in BOOLEAN : UpdateNoteOutcome(id, change, ok)
  \/ \E id \in NoteIdRange, ok \in BOOLEAN : DeleteNoteOutcome(id, ok)
  \/ \E ids \in (SUBSET NoteIdRange) \ {{}}, ok \in BOOLEAN : DeleteNotesOutcome(ids, ok)

\* the note operations on mobile, each awaited before the next; the save of
\* an update or of a delete may throw
SpecNoteSaves == InitNoteImages /\ [][NextNoteSaves]_vars

\* every file:// image of the note names a blob of the images directory
ImagesExist(note) ==
  note.images.defined =>
    \A x \in 1..Len(note.images.list) :
      note.images.list[x].form = "file" => note.images.list[x].id \in DOMAIN files

\* the same for a note of the stored document, which has no images key when
\* the note had no images
StoredImagesExist(j) ==
  "images" \in DOMAIN j =>
    \A x \in 1..Len(j.images) : j.images[x].form = "file" => j.images[x].id \in DOMAIN files

\* C34: no note of the persisted or observable collection references a blob
\* that the note operations have deleted, also when the save inside
\* deleteNote, deleteNotes or updateNote fails
C34_NoDanglingReference ==
  /\ \A x \in 1..Len(notes) : ImagesExist(notes[x])
  /\ Has(store, K_NOTES) =>
       \A x \in 1..Len(Get(store, K_NOTES).json) :
         StoredImagesExist(Get(store, K_NOTES).json[x])

\* ------------------------------------------------ importProject, failing saves
NextImportFails ==
  \/ InitializeStorage
  \/ ProjectsEffect
  \/ \E project \in ImportInputs, relatedNotes \in RelatedNotesInputs :
       ImportProject(project, relatedNotes)
  \/ TaskSteps
  \/ \E i \in 1..MaxTasks : SaveProjectsWrite(i)
  \/ \E i \in 1..MaxTasks : NotesCatch(i)

\* importProject on the loaded repository, a storage call of its saves may throw
SpecImportFails == InitWith(0, {RepoStore}, {TRUE}) /\ [][NextImportFails]_vars

\* the last call is an importProject and the queue holds its two saves only
ImportCalled == lastCall.op = "importProject" /\ Len(tasks) = 2

\* await Promise.all([saveProjects(...), saveNotes(...)]) inside the try:
\* false as soon as one save rejects, true when both are fulfilled
ImportReturned ==
  IF \E i \in 1..2 : tasks[i].outcome = "rejected" THEN "false"
  ELSE IF \A i \in 1..2 : tasks[i].outcome = "fulfilled" THEN "true"
  ELSE "pending"

\* the imported project, with its fresh ids
ImportedOf(call) == tasks[call.task - 1].projectsArg[Len(tasks[call.task - 1].projectsArg)]

\* C35: importProject is all-or-nothing: when it returns false, neither the
\* persisted projects, nor the persisted notes, nor the observable state
\* holds any part of the import; when it returns true the imported project
\* and all related notes are persisted
C35_ImportAllOrNothing ==
  ImportCalled =>
    /\ ImportReturned = "false" =>
         /\ ImportedOf(lastCall) \notin Elements(StoredProjects)
         /\ ImportedOf(lastCall) \notin Elements(projects)
         /\ LoadNotes(store, TRUE, TRUE) = lastCall.before.notes
         /\ notes = lastCall.before.notes
    /\ ImportReturned = "true" =>
         /\ ImportedOf(lastCall) \in Elements(StoredProjects)
         /\ LoadNotes(store, TRUE, TRUE) = tasks[lastCall.task].notesArg

\* the first half alone: nothing of the tree is persisted or observable after
\* an import that returned false
ImportFalseKeepsProjects ==
  (ImportCalled /\ ImportReturned = "false") =>
    /\ ImportedOf(lastCall) \notin Elements(StoredProjects)
    /\ ImportedOf(lastCall) \notin Elements(projects)

\* ------------------------------------- orphan cleanup beside a note creation
raceFrame == << precise, app, projects, projectsRef, favorites, quickCalcHistory, clear,
                failures, crashes, directCalls, clears, committed, crashInfo, loadOk,
                chunkVars, loadFailed, platformOS, sanitizeCall >>

\* createNote(noteData) up to its return of the promise of saveNotes: the
\* images are externalized first, then the save of [newNote, ...notes] is
\* enqueued
CreateNoteEnqueues(images) ==
  LET r == persistImagesIfNeeded(platformOS, images, {}, files, nextFile)
      newNote == [id |-> nextId, images |-> r.result]
  IN /\ app = "ready"
     /\ Len(tasks) < MaxTasks
     /\ Enqueue("saveNotes", << >>, <<newNote>> \o notes, NoUpdate)
     /\ Called("createNote", {nextId}, "pending", Len(tasks) + 1)
     /\ files' = r.files
     /\ nextFile' = r.next
     /\ nextId' = nextId + 1
     /\ now' = now + 1
     /\ UNCHANGED << raceFrame, store, notes, lastWrite, persistCall >>

\* the queue runs the save of task i, no storage call throwing
SaveNotesRuns(i) ==
  /\ i \in 1..Len(tasks)
  /\ tasks[i].pc = "queued"
  /\ PromiseState(tasks, tasks[i].pred) # "pending"
  /\ SavesNoteRecords(store, tasks[i].notesArg, files, nextFile)
  /\ tasks' = [tasks EXCEPT ![i].pc = "done", ![i].outcome = "fulfilled"]
  /\ UNCHANGED << raceFrame, saveQueueRef, lastCall, persistCall, nextId, now >>

\* cleanupOrphanImages(notes.flatMap(note => note.images || [])), run once:
\* the caller hands over the images of the notes it can observe
CleanupOrphansOfNotes ==
  /\ app = "ready"
  /\ persistCall.op = "none"
  /\ CleanupRun("cleanup", AllImagesOf(notes, Len(notes)), NoEarlierRun)

NextCleanupRace ==
  \/ InitializeStorage
  \/ \E images \in NewImageLists : CreateNoteEnqueues(images)
  \/ \E i \in 1..MaxTasks : SaveNotesRuns(i)
  \/ CleanupOrphansOfNotes

\* note creations on mobile whose saves run in the queue, and one orphan
\* cleanup called at any moment
SpecCleanupRace == InitNoteImages /\ [][NextCleanupRace]_vars

\* C36: an orphan cleanup that runs beside a createNote or saveNotes that
\* externalizes images never deletes a blob that the saved document
\* references: once the saves have completed, every external reference of the
\* persisted notes has its blob
C36_CleanupKeepsNewBlobs ==
  ((\A i \in TaskIds : Settled(tasks[i])) /\ Has(store, K_NOTES)) =>
    \A x \in 1..Len(Get(store, K_NOTES).json) :
      StoredImagesExist(Get(store, K_NOTES).json[x])

\* without a cleanup having run, the references of the saved document exist
NoCleanupNoDangling ==
  persistCall.op = "none" => C36_CleanupKeepsNewBlobs

\* ---------------------------------------------------- progress of the queue
\* the steps the runtime takes on its own: a settled promise calls the
\* function chained on it, a storage call returns or throws
QueueSteps ==
  \/ TaskSteps
  \/ \E i \in 1..MaxTasks : SaveProjectsWrite(i)
  \/ \E i \in 1..MaxTasks : NotesCatch(i)

NextQueue ==
  \/ InitializeStorage
  \/ ProjectsEffect
  \/ \E sid \in ShutterIds, name \in 1..MaxName : UpdateShutter(sid, name)
  \/ CreateNote
  \/ QueueSteps

\* the callers of saveProjects and saveNotes on a store without notes, a
\* storage call may throw
SpecQueue == InitWith(0, {BaseStore}, {TRUE}) /\ [][NextQueue]_vars

\* the same with every storage call returning, with success or failure, and
\* every promise reaction running
SpecQueueFair == SpecQueue /\ WF_vars(QueueSteps)

FavoritesExist ==
  /\ Elements(favorites["PROJECTS"]) \subseteq {p.id : p \in Elements(projects)}
  /\ Elements(favorites["BUILDINGS"]) \subseteq {b.id : b \in BuildingsIn(projects)}
  /\ Elements(favorites["ZONES"]) \subseteq {z.id : z \in ZonesIn(projects)}
  /\ Elements(favorites["SHUTTERS"]) \subseteq {s.id : s \in ShuttersIn(projects)}
  /\ Elements(favorites["NOTES"]) \subseteq Elements(notes)

\* C38: with favorites that name existing entities only, after any sequence
\* of deletes every id of each favorites list names an entity of the
\* observable collections: the delete of a project, building or zone also
\* removes the ids of its descendants from their lists
C38_FavoritesReferToEntities ==
  (app = "ready" /\ \A i \in TaskIds : Settled(tasks[i])) => FavoritesExist

\* the same for the deletes of entities that have nothing below them
LeafDeletesKeepFavorites ==
  ( /\ app = "ready"
    /\ \A i \in TaskIds : Settled(tasks[i])
    /\ lastCall.op \in {"none", "deleteShutter", "deleteNote"}
    /\ lastCall.n <= 1 ) => FavoritesExist

\* ------------------------------------------------ saveNotes and inline images
\* saveNotes(newNotes) run by the queue, no storage call throwing: the sanitize
\* pass (failed: the image writes that throw), the write of the document,
\* setNotes(sanitizedNotes)
SaveNotesSanitizing(newNotes, failed) ==
  LET r == sanitizeNotesImagesOn(platformOS, newNotes, failed, files, nextFile) IN
  /\ ~sanitizeCall.done
  /\ sanitizeCall' = [done |-> TRUE, notes |-> newNotes, failed |-> failed,
                       sanitizedNotes |-> r.out,
                       dataString |-> StringifyNoteRecords(r.out),
                       filesBefore |-> files]
  /\ store' = SetItem(store, K_NOTES, StringifyNoteRecords(r.out))
  /\ notes' = r.out
  /\ files' = r.files
  /\ nextFile' = r.next
  /\ lastWrite' = [op |-> "saveNotes", task |-> 0]
  /\ UNCHANGED << precise, app, projects, projectsRef, favorites, quickCalcHistory, tasks,
                  saveQueueRef, clear, now, nextId, failures, crashes, directCalls, clears,
                  committed, crashInfo, loadOk, loadFailed, chunkVars, lastCall,
                  platformOS, persistCall >>

NextSaveImages ==
  \E newNotes \in NoteLists : \E failed \in SUBSET SanitizeWrites(platformOS, newNotes) :
    SaveNotesSanitizing(newNotes, failed)

\* one save of a notes list with images of every form, on either platform
SpecSaveImages == InitImages /\ [][NextSaveImages]_vars

\* no image of the list is an inline payload
NoInline(images) == \A x \in 1..Len(images) : images[x].form # "inline"

\* C39: on mobile, after a successful saveNotes neither the persisted notes
\* document nor the observable notes hold an inline image payload: an image
\* of a saved note is an external reference
C39_SavedNotesHoldNoInline ==
  (sanitizeCall.done /\ platformOS # "web") =>
    /\ \A n \in 1..Len(notes) : NoInline(notes[n].images.list)
    /\ \A n \in 1..Len(Get(store, K_NOTES).json) :
         "images" \in DOMAIN Get(store, K_NOTES).json[n]
           => NoInline(Get(store, K_NOTES).json[n].images)
    /\ \A n \in 1..Len(notes) : \A x \in 1..Len(notes[n].images.list) :
         notes[n].images.list[x].form \in {"inline", "file"}
           => /\ notes[n].images.list[x].form = "file"
              /\ notes[n].images.list[x].id \in DOMAIN files

\* a note with an external reference followed by an inline image was saved on
\* mobile: the saved note holds two external references
C39_Witness ==
  /\ sanitizeCall.done /\ platformOS = "ios"
  /\ Len(sanitizeCall.notes) = MaxImageNotes
  /\ sanitizeCall.notes[1].images = Defined(<<FileRef(1), Inline(2)>>)
  /\ notes[1].images.defined /\ Len(notes[1].images.list) = 2
  /\ NoInline(notes[1].images.list)
  /\ Get(store, K_NOTES).json[1].images = notes[1].images.list

\* ------------------------------------------------ the dates of a loaded store
\* what a stored object may hold in a date field: nothing (the key is
\* absent), null, the ISO string JSON.stringify wrote, a string that is no date
MissingField == [absent |-> TRUE]
NullField == [null |-> TRUE]
MalformedDate == [text |-> "not a date"]
StoredDates == {MissingField, NullField, MalformedDate, DateToJSON(0)}

\* a Date object: of a time, or Invalid Date
DateAt(t) == [valid |-> TRUE, time |-> t]
InvalidDate == [valid |-> FALSE, time |-> 0]

\* new Date(string): Invalid Date for a string that is no date
newDate(v) == IF "iso" \in DOMAIN v THEN DateAt(v.iso) ELSE InvalidDate

\* new Date(v || Date.now()): undefined and null are falsy, every non-empty
\* string is truthy; a variant that tests the parsed date instead
CoerceValidDate(v, t) ==
  IF v \notin {MissingField, NullField} /\ newDate(v).valid THEN newDate(v) ELSE DateAt(t)
CoerceDate(v, t) ==
  IF v \notin {MissingField, NullField} THEN newDate(v) ELSE DateAt(t)

\* the stored documents: one project with one building, one zone and one
\* shutter, one note, one history item, a date field holding any stored value
DatedProjects(p, i) ==
  [json |-> << [id |-> "p1", createdAt |-> p[1], updatedAt |-> p[2],
     buildings |-> << [id |-> "b1", createdAt |-> i[1],
       functionalZones |-> << [id |-> "z1", createdAt |-> i[2],
         shutters |-> << [id |-> "s1", createdAt |-> i[1], updatedAt |-> i[2]] >> ] >> ] >> ] >>]
DatedNotes(n) == [json |-> << [id |-> 1, createdAt |-> n[1], updatedAt |-> n[2]] >>]
DatedHistory(h) == [json |-> << [id |-> 1, timestamp |-> h] >>]
DatedStores ==
  { [kv |-> (K_PROJECTS :> DatedProjects(p, i)) @@ (K_NOTES :> DatedNotes(n))
              @@ (K_HISTORY :> DatedHistory(h)),
     chunk |-> << >>] :
      p \in StoredDates \X StoredDates, i \in StoredDates \X StoredDates,
      n \in StoredDates \X StoredDates, h \in StoredDates }

\* parsedProjects.map(project => ({...project, createdAt: new Date(...), ...}))
CoerceShutter(sh, t) ==
  [sh EXCEPT !.createdAt = CoerceDate(@, t), !.updatedAt = CoerceDate(@, t)]
CoerceZone(z, t) ==
  [z EXCEPT !.createdAt = CoerceDate(@, t),
            !.shutters = [x \in 1..Len(z.shutters) |-> CoerceShutter(z.shutters[x], t)]]
CoerceBuilding(b, t) ==
  [b EXCEPT !.createdAt = CoerceDate(@, t),
            !.functionalZones = [k \in 1..Len(b.functionalZones) |->
                                   CoerceZone(b.functionalZones[k], t)]]
CoerceProject(p, t) ==
  [p EXCEPT !.createdAt = CoerceDate(@, t), !.updatedAt = CoerceDate(@, t),
            !.buildings = [j \in 1..Len(p.buildings) |-> CoerceBuilding(p.buildings[j], t)]]
\* loadedNotes.map(note => ({...note, createdAt: new Date(...), updatedAt: ...}))
CoerceNote(n, t) ==
  [n EXCEPT !.createdAt = CoerceDate(@, t), !.updatedAt = CoerceDate(@, t)]
\* parsedHistory.map(item => ({...item, timestamp: new Date(...)}))
CoerceHistoryItem(item, t) == [item EXCEPT !.timestamp = CoerceDate(@, t)]

\* initializeStorage on a store whose documents parse, no read throwing:
\* the post-processing of the projects, the history and the notes
InitializeDated ==
  /\ app = "booting"
  /\ app' = "ready"
  /\ projects' = [x \in 1..Len(Get(store, K_PROJECTS).json) |->
                    CoerceProject(Get(store, K_PROJECTS).json[x], now)]
  /\ quickCalcHistory' = [x \in 1..Len(Get(store, K_HISTORY).json) |->
                            CoerceHistoryItem(Get(store, K_HISTORY).json[x], now)]
  /\ notes' = [x \in 1..Len(Get(store, K_NOTES).json) |->
                 CoerceNote(Get(store, K_NOTES).json[x], now)]
  /\ UNCHANGED << store, precise, projectsRef, favorites, tasks, saveQueueRef, clear, now,
                  nextId, countVars, lastWrite, committed, crashInfo, loadOk, sideVars >>

\* a booting provider on each of the stores
InitDated ==
  /\ ProviderInit(0, DatedStores, {TRUE})
  /\ ChunkerIdle
  /\ ImagesIdle({"web"})
  /\ lastCall = NoCall

NextDated == InitializeDated

SpecDated == InitDated /\ [][NextDated]_vars

\* the date fields of the loaded collections, each with the stored value it
\* was made from
LoadedDates ==
  LET sp == Get(store, K_PROJECTS).json[1]      lp == projects[1]
      sb == sp.buildings[1]                     lb == lp.buildings[1]
      sz == sb.functionalZones[1]               lz == lb.functionalZones[1]
      ss == sz.shutters[1]                      ls == lz.shutters[1]
      sn == Get(store, K_NOTES).json[1]         ln == notes[1]
      sh == Get(store, K_HISTORY).json[1]       lh == quickCalcHistory[1]
  IN { <<sp.createdAt, lp.createdAt>>, <<sp.updatedAt, lp.updatedAt>>,
       <<sb.createdAt, lb.createdAt>>, <<sz.createdAt, lz.createdAt>>,
       <<ss.createdAt, ls.createdAt>>, <<ss.updatedAt, ls.updatedAt>>,
       <<sn.createdAt, ln.createdAt>>, <<sn.updatedAt, ln.updatedAt>>,
       <<sh.timestamp, lh.timestamp>> }

\* C40: every loaded project, building, zone, shutter, note and history item
\* has a valid date in each of its date fields: a stored date that is
\* missing or malformed is replaced by the time of the load
C40_LoadedDatesValid ==
  app = "ready" =>
    \A d \in LoadedDates :
      /\ d[2].valid
      /\ "iso" \notin DOMAIN d[1] => d[2] = DateAt(now)

\* the part that holds: a missing or null date becomes the time of the load,
\* a stored ISO string the date it was written from
MissingDateIsNow ==
  app = "ready" =>
    \A d \in LoadedDates :
      /\ d[1] \in {MissingField, NullField} => d[2] = DateAt(now)
      /\ "iso" \in DOMAIN d[1] => d[2] = DateAt(d[1].iso)

====
